---------------------------- MODULE Spec2Model ----------------------------
(***************************************************************************)
(* A model of the computer-opponent subsystem of the vue-chess repository: *)
(*   - src/src/workers/aiWorker.ts : evaluateBoard, minimax, handleCompute *)
(*   - src/src/utils/ai.ts         : the worker facade (request ids,       *)
(*                                   pending table, worker life cycle)     *)
(*   - src/src/stores/chess.ts     : the game store (requestAiMove and the *)
(*                                   operations that cancel it)            *)
(* and of the auto-join evaluation of the online lobby                     *)
(*   - src/src/views/OnlineGameView.vue : queueAutoJoinEvaluation,         *)
(*                                   evaluateMembershipAutoJoin            *)
(* The rules engine (chess.js) is an external library.  It is modelled as  *)
(* an abstract finite game: a position is a path in a tree of positions,   *)
(* every position carrying its legal moves, its board, whether the side to *)
(* move is in check and whether a drawing rule applies.                    *)
(***************************************************************************)
EXTENDS Integers, Sequences, FiniteSets, TLC

VARIABLES
    world,            \* the rules of the abstract game: position -> node
    rules,            \* the rules engine's answers at every kind of position
    query,            \* the last direct search invocation (SpecSearch)
    result,           \* what that invocation returned
    aiWorker,         \* ai.ts: the worker slot (0 = null, else an instance)
    nextRequestId,    \* ai.ts: the id counter
    pendingRequests,  \* ai.ts: the pending table, id -> promise (call index)
    calls,            \* every computeBestMove call and the state of its promise
    workers,          \* every worker instance ever created
    store,            \* chess.ts: the refs and locals of the store
    lobby             \* OnlineGameView.vue: the auto-join evaluation

vars == <<world, rules, query, result, aiWorker, nextRequestId, pendingRequests,
          calls, workers, store, lobby>>

-----------------------------------------------------------------------------
(* Bounds of the model.                                                    *)

\* legal moves per position of the synthetic game trees
MaxBranch == 2
\* plies below the root position of a game tree
MaxPly == 3

-----------------------------------------------------------------------------
(* Values.                                                                 *)

\* Infinity of aiWorker.ts:121: larger than every score of the model
Infinity == 1000000
NegInfinity == 0 - Infinity

Max(a, b) == IF a >= b THEN a ELSE b
Min(a, b) == IF a <= b THEN a ELSE b

Colors == {"w", "b"}
Other(c) == IF c = "w" THEN "b" ELSE "w"

\* a Move of chess.js, reduced to what the code reads; NullMove is null
NullMove == [from |-> 0, to |-> 0, promotion |-> "null"]
Mv(f, t, p) == [from |-> f, to |-> t, promotion |-> p]

Empty == [type |-> "none", color |-> "none"]
Pc(c, t) == [type |-> t, color |-> c]

\* positions: the paths of move indices from the root position
Paths == UNION {[1..n -> 1..MaxBranch] : n \in 0..MaxPly}

-----------------------------------------------------------------------------
(* The positions of the abstract game.  `world` gives every position a     *)
(* kind; a kind stands for the legal moves, the board, the check flag and  *)
(* the drawing-rule flag of the position.                                  *)

\* n legal moves of a synthetic position, in generator order
GenMoves(n) == [i \in 1..n |-> Mv(1, i + 1, "none")]

NodeRec(ms, b, chk, dr) == [moves |-> ms, board |-> b, inCheck |-> chk, ruleDraw |-> dr]

BoardEven == <<Pc("w", "k"), Pc("w", "p"), Pc("b", "p"), Pc("b", "k")>>
BoardWhiteUp == <<Pc("w", "k"), Pc("w", "b"), Pc("b", "n"), Pc("b", "k")>>
BoardBlackUp == <<Pc("w", "k"), Pc("w", "n"), Empty, Pc("b", "b"), Pc("b", "k")>>

\* The game the store is run on: White has a king (square 1) and a pawn
\* (square 2), Black a king (square 5); the game is over after three plies
\* at the latest.  White's pawn promotes on square 4.
WK == Pc("w", "k")
WP == Pc("w", "p")
BK == Pc("b", "k")

StoreNode(kind) ==
    CASE kind = "s"   -> NodeRec(<<Mv(2, 3, "none"), Mv(1, 4, "none")>>,
                                 <<WK, WP, Empty, Empty, BK, Empty>>, FALSE, FALSE)
      [] kind = "s1"  -> NodeRec(<<Mv(5, 6, "none"), Mv(5, 4, "none")>>,
                                 <<WK, Empty, WP, Empty, BK, Empty>>, FALSE, FALSE)
      [] kind = "s2"  -> NodeRec(<<Mv(5, 6, "none")>>,
                                 <<Empty, WP, Empty, WK, BK, Empty>>, TRUE, FALSE)
      [] kind = "s11" -> NodeRec(<<Mv(3, 4, "q"), Mv(3, 4, "r"), Mv(3, 4, "b"), Mv(3, 4, "n")>>,
                                 <<WK, Empty, WP, Empty, Empty, BK>>, FALSE, FALSE)
      [] kind = "s12" -> NodeRec(<<Mv(1, 2, "none")>>,
                                 <<WK, Empty, WP, BK, Empty, Empty>>, FALSE, TRUE)
      [] kind = "s21" -> NodeRec(<<Mv(2, 3, "none"), Mv(4, 5, "none")>>,
                                 <<Empty, WP, Empty, WK, Empty, BK>>, FALSE, FALSE)
      [] kind = "s111" -> NodeRec(<<>>, <<WK, Empty, Empty, Pc("w", "q"), Empty, BK>>,
                                  TRUE, FALSE)
      [] kind = "s112" -> NodeRec(<<>>, <<WK, Empty, Empty, Pc("w", "r"), Empty, BK>>,
                                  FALSE, FALSE)
      [] kind = "s113" -> NodeRec(<<>>, <<WK, Empty, Empty, Pc("w", "b"), Empty, BK>>,
                                  FALSE, TRUE)
      [] kind = "s114" -> NodeRec(<<>>, <<WK, Empty, Empty, Pc("w", "n"), Empty, BK>>,
                                  FALSE, TRUE)
      [] kind = "s121" -> NodeRec(<<>>, <<Empty, WK, WP, BK, Empty, Empty>>, FALSE, FALSE)
      [] kind = "s211" -> NodeRec(<<>>, <<Empty, Empty, WP, WK, Empty, BK>>, TRUE, FALSE)
      [] kind = "s212" -> NodeRec(<<>>, <<Empty, WP, Empty, Empty, WK, BK>>, FALSE, FALSE)
      [] OTHER -> NodeRec(<<>>, <<>>, FALSE, FALSE)

StoreSquares == 1..6

StoreKind(p) ==
    CASE p = <<>> -> "s"
      [] p = <<1>> -> "s1"
      [] p = <<2>> -> "s2"
      [] p = <<1, 1>> -> "s11"
      [] p = <<1, 2>> -> "s12"
      [] p = <<2, 1>> -> "s21"
      [] p = <<1, 1, 1>> -> "s111"
      [] p = <<1, 1, 2>> -> "s112"
      [] p = <<1, 1, 3>> -> "s113"
      [] p = <<1, 1, 4>> -> "s114"
      [] p = <<1, 2, 1>> -> "s121"
      [] p = <<2, 1, 1>> -> "s211"
      [] p = <<2, 1, 2>> -> "s212"
      [] OTHER -> "off"

StoreGame == [p \in UNION {[1..n -> 1..4] : n \in 0..3} |-> StoreKind(p)]

\* The standard starting position: 20 legal moves for White and, after each
\* of them, 20 legal replies for Black; no first move captures, so the
\* material on the board after it is the material of the starting position.
BackRank(c) ==
    <<Pc(c, "r"), Pc(c, "n"), Pc(c, "b"), Pc(c, "q"),
      Pc(c, "k"), Pc(c, "b"), Pc(c, "n"), Pc(c, "r")>>
Rank(x) == [i \in 1..8 |-> x]
BoardStart ==
    BackRank("b") \o Rank(Pc("b", "p")) \o Rank(Empty) \o Rank(Empty)
        \o Rank(Empty) \o Rank(Empty) \o Rank(Pc("w", "p")) \o BackRank("w")

StartGame ==
    [p \in {<<>>} \cup {<<i>> : i \in 1..20} |-> IF p = <<>> THEN "start" ELSE "start1"]

\* A position in which White has promoted its eight pawns to queens:
\* k7/8/8/8/8/1BNNK3/1QQQRR1B/1QQQQQQ1 w - - 0 1.  Black's king is not
\* attacked and White, to move, has 48 legal moves.
BoardPromoted ==
    <<Pc("b", "k")>> \o [i \in 1..7 |-> Empty]
        \o Rank(Empty) \o Rank(Empty) \o Rank(Empty) \o Rank(Empty)
        \o <<Empty, Pc("w", "b"), Pc("w", "n"), Pc("w", "n"), Pc("w", "k"),
             Empty, Empty, Empty>>
        \o <<Empty, Pc("w", "q"), Pc("w", "q"), Pc("w", "q"), Pc("w", "r"),
             Pc("w", "r"), Empty, Pc("w", "b")>>
        \o <<Empty, Pc("w", "q"), Pc("w", "q"), Pc("w", "q"), Pc("w", "q"),
             Pc("w", "q"), Pc("w", "q"), Empty>>

PromotedGame == [p \in {<<>>} |-> "promoted"]

NodeAt(kind) ==
    CASE kind = "start" -> NodeRec(GenMoves(20), BoardStart, FALSE, FALSE)
      [] kind = "promoted" -> NodeRec(GenMoves(48), BoardPromoted, FALSE, FALSE)
      [] kind = "start1" -> NodeRec(GenMoves(20), BoardStart, FALSE, FALSE)
      [] kind = "even"  -> NodeRec(GenMoves(MaxBranch), BoardEven, FALSE, FALSE)
      [] kind = "wup"   -> NodeRec(GenMoves(MaxBranch), BoardWhiteUp, FALSE, FALSE)
      [] kind = "bup"   -> NodeRec(GenMoves(MaxBranch), BoardBlackUp, FALSE, FALSE)
      [] kind = "one"   -> NodeRec(GenMoves(1), BoardWhiteUp, TRUE, FALSE)
      [] kind = "mate"  -> NodeRec(<<>>, BoardEven, TRUE, FALSE)
      [] kind = "stale" -> NodeRec(<<>>, BoardBlackUp, FALSE, FALSE)
      [] kind = "draw"  -> NodeRec(GenMoves(MaxBranch), BoardWhiteUp, FALSE, TRUE)
      [] kind = "mate50" -> NodeRec(<<>>, BoardWhiteUp, TRUE, TRUE)
      [] OTHER -> StoreNode(kind)

\* the kinds of position
NodeKinds ==
    {"start", "promoted", "start1", "even", "wup", "bup", "one",
     "mate", "stale", "draw", "mate50", "s", "s1", "s2", "s11",
     "s12", "s21", "s111", "s112", "s113", "s114", "s121", "s211",
     "s212", "off"}

\* what the rules engine answers at every kind of position
RulesTable == [kind \in NodeKinds |-> NodeAt(kind)]

Node(kind) == rules[kind]

-----------------------------------------------------------------------------
(* The rules engine (chess.js), as the abstract game `world`.              *)
(* A game object is the position it was constructed from and the moves     *)
(* made on it since (what undo can take back).                             *)

\* game.fen(): the position reached, without the history behind it
Fen(game) == [ok |-> TRUE, pos |-> game.root \o game.hist]
\* a string that is no FEN
BadFen == [ok |-> FALSE, pos |-> <<>>]
\* new Chess(fen), for a valid fen: the position, with no history
Chess(fen) == [root |-> fen.pos, hist |-> <<>>]
\* new Chess() / game.reset(): the starting position
NewGame == [root |-> <<>>, hist |-> <<>>]

PosOf(game) == game.root \o game.hist
NodeOf(game) == Node(world[PosOf(game)])
\* game.turn(): White moves at the root, the sides alternate
turn(game) == IF Len(PosOf(game)) % 2 = 0 THEN "w" ELSE "b"
\* game.moves({verbose: true}), in the generator's order
moves(game) == NodeOf(game).moves
\* game.board(), flattened to a sequence of squares
board(game) == NodeOf(game).board
isCheck(game) == NodeOf(game).inCheck
isCheckmate(game) == isCheck(game) /\ Len(moves(game)) = 0
isStalemate(game) == ~isCheck(game) /\ Len(moves(game)) = 0
\* fifty-move rule, insufficient material, threefold repetition, stalemate
isDraw(game) == NodeOf(game).ruleDraw \/ isStalemate(game)
isGameOver(game) == isCheckmate(game) \/ isStalemate(game) \/ isDraw(game)

\* the index of the legal move that {from, to, promotion} names, 0 if none:
\* the promotion piece counts only for a move that promotes
MoveIndex(game, from, to, promotion) ==
    LET ms == moves(game)
        hit == {i \in 1..Len(ms) :
                    /\ ms[i].from = from
                    /\ ms[i].to = to
                    /\ (ms[i].promotion = "none" \/ ms[i].promotion = promotion)}
    IN IF hit = {} THEN 0 ELSE CHOOSE i \in hit : \A j \in hit : i <= j

\* game.move(...) with a legal move: the game after it
gameMove(game, from, to, promotion) ==
    [game EXCEPT !.hist = Append(@, MoveIndex(game, from, to, promotion))]

\* game.undo(): takes back the last move made on this object, if any
undo(game) ==
    IF Len(game.hist) = 0 THEN game
    ELSE [game EXCEPT !.hist = SubSeq(@, 1, Len(@) - 1)]

-----------------------------------------------------------------------------
(* aiWorker.ts: the evaluator.                                             *)

\* the weights of knight and bishop exchanged
PIECE_VALUES_KnightBishopSwapped(t) ==
    CASE t = "p" -> 100
      [] t = "n" -> 330
      [] t = "b" -> 320
      [] t = "r" -> 500
      [] t = "q" -> 900
      [] t = "k" -> 0
      [] OTHER -> 0

PIECE_VALUES(t) ==
    CASE t = "p" -> 100
      [] t = "n" -> 320
      [] t = "b" -> 330
      [] t = "r" -> 500
      [] t = "q" -> 900
      [] t = "k" -> 0
      [] OTHER -> 0

CHECKMATE_SCORE == 10000

RECURSIVE materialFrom(_, _)
\* the loop of evaluateBoard over the squares i..Len(b) of the board
materialFrom(b, i) ==
    IF i > Len(b) THEN 0
    ELSE LET piece == b[i]
             baseValue == PIECE_VALUES(piece.type)
         IN (IF piece = Empty THEN 0
             ELSE IF piece.color = "w" THEN baseValue ELSE 0 - baseValue)
            + materialFrom(b, i + 1)

\* the mobility term is left out
evaluateBoardMaterialOnly(game, aiColor) ==
    LET score == materialFrom(board(game), 1)
    IN IF aiColor = "w" THEN score ELSE 0 - score

evaluateBoard(game, aiColor) ==
    LET material == materialFrom(board(game), 1)
        mobility == Len(moves(game)) * 10
        score == material + (IF turn(game) = "w" THEN mobility ELSE 0 - mobility)
    IN IF aiColor = "w" THEN score ELSE 0 - score

-----------------------------------------------------------------------------
(* aiWorker.ts: the search.  A result is the {score, move} the code        *)
(* returns, together with the game object as the call leaves it (the code  *)
(* mutates one shared object with move/undo), the positions handed to      *)
(* evaluateBoard and the number of minimax invocations made.               *)

Res(score, move, game, evals, nodes) ==
    [score |-> score, move |-> move, game |-> game, evals |-> evals, nodes |-> nodes]

\* lines 48-53: the score of a position in which the side to move is mated
checkmateScore(game, aiColor) ==
    IF turn(game) = aiColor THEN 0 - CHECKMATE_SCORE ELSE CHECKMATE_SCORE

\* the draw test placed before the checkmate test
leafResultDrawFirst(game, aiColor) ==
    IF isDraw(game) THEN Res(0, NullMove, game, {}, 1)
    ELSE IF isCheckmate(game) THEN Res(checkmateScore(game, aiColor), NullMove, game, {}, 1)
    ELSE Res(evaluateBoard(game, aiColor), NullMove, game, {PosOf(game)}, 1)

\* the draw test left out: a drawn position is scored statically
leafResultNoDraw(game, aiColor) ==
    IF isCheckmate(game) THEN Res(checkmateScore(game, aiColor), NullMove, game, {}, 1)
    ELSE Res(evaluateBoard(game, aiColor), NullMove, game, {PosOf(game)}, 1)

\* only a draw by rule is intercepted: a stalemate is scored statically
leafResultRuleDrawOnly(game, aiColor) ==
    IF isCheckmate(game) THEN Res(checkmateScore(game, aiColor), NullMove, game, {}, 1)
    ELSE IF NodeOf(game).ruleDraw THEN Res(0, NullMove, game, {}, 1)
    ELSE Res(evaluateBoard(game, aiColor), NullMove, game, {PosOf(game)}, 1)

\* lines 47-58: depth exhausted or game over
leafResult(game, aiColor) ==
    IF isCheckmate(game) THEN Res(checkmateScore(game, aiColor), NullMove, game, {}, 1)
    ELSE IF isDraw(game) THEN Res(0, NullMove, game, {}, 1)
    ELSE Res(evaluateBoard(game, aiColor), NullMove, game, {PosOf(game)}, 1)

\* lines 63-71: no move enumerated
noMovesResult(game, maximizing) ==
    IF isCheckmate(game)
    THEN Res(IF maximizing THEN 0 - CHECKMATE_SCORE ELSE CHECKMATE_SCORE,
             NullMove, game, {}, 1)
    ELSE Res(0, NullMove, game, {}, 1)

\* a candidate with an equal score replaces the incumbent too
betterMaxOrEqual(score, bestScore) == score >= bestScore

\* a candidate replaces the incumbent only with a score above zero
betterMaxAboveZero(score, bestScore) == score > bestScore /\ score > 0

\* lines 83, 104: a candidate replaces the incumbent
betterMax(score, bestScore) == score > bestScore
betterMin(score, bestScore) == score < bestScore

\* the cut-off test with its operands exchanged
cutoffInverted(alpha, beta) == alpha <= beta

\* lines 89, 110: the cut-off test
cutoff(alpha, beta) == beta <= alpha

\* lines 79, 100: the move handed to game.move
played(game, move) ==
    gameMove(game, move.from, move.to,
             IF move.promotion = "none" THEN "q" ELSE move.promotion)

RECURSIVE minimax(_, _, _, _, _)
RECURSIVE maxLoop(_, _, _, _, _, _, _, _, _, _)
RECURSIVE minLoop(_, _, _, _, _, _, _, _, _, _)

\* lines 78-92, from candidate i on; r is the result of the recursive call
\* on candidate i (game.move, minimax, game.undo)
maxStep(r, depth, alpha, beta, aiColor, i, bestScore, bestMove, evals, nodes) ==
    LET game == undo(r.game)
        move == moves(game)[i]
        better == betterMax(r.score, bestScore)
        bestScore2 == IF better THEN r.score ELSE bestScore
        bestMove2 == IF better THEN move ELSE bestMove
        alpha2 == Max(alpha, bestScore2)
        evals2 == evals \cup r.evals
        nodes2 == nodes + r.nodes
    IN IF cutoff(alpha2, beta) \/ i = Len(moves(game))
       THEN Res(bestScore2, bestMove2, game, evals2, nodes2)
       ELSE maxLoop(game, depth, alpha2, beta, aiColor, i + 1,
                    bestScore2, bestMove2, evals2, nodes2)

maxLoop(game, depth, alpha, beta, aiColor, i, bestScore, bestMove, evals, nodes) ==
    maxStep(minimax(played(game, moves(game)[i]), depth - 1, alpha, beta, aiColor),
            depth, alpha, beta, aiColor, i, bestScore, bestMove, evals, nodes)

\* lines 99-113
minStep(r, depth, alpha, beta, aiColor, i, bestScore, bestMove, evals, nodes) ==
    LET game == undo(r.game)
        move == moves(game)[i]
        better == betterMin(r.score, bestScore)
        bestScore2 == IF better THEN r.score ELSE bestScore
        bestMove2 == IF better THEN move ELSE bestMove
        beta2 == Min(beta, bestScore2)
        evals2 == evals \cup r.evals
        nodes2 == nodes + r.nodes
    IN IF cutoff(alpha, beta2) \/ i = Len(moves(game))
       THEN Res(bestScore2, bestMove2, game, evals2, nodes2)
       ELSE minLoop(game, depth, alpha, beta2, aiColor, i + 1,
                    bestScore2, bestMove2, evals2, nodes2)

minLoop(game, depth, alpha, beta, aiColor, i, bestScore, bestMove, evals, nodes) ==
    minStep(minimax(played(game, moves(game)[i]), depth - 1, alpha, beta, aiColor),
            depth, alpha, beta, aiColor, i, bestScore, bestMove, evals, nodes)

minimax(game, depth, alpha, beta, aiColor) ==
    IF depth = 0 \/ isGameOver(game) THEN leafResult(game, aiColor)
    ELSE LET maximizing == turn(game) = aiColor
         IN IF Len(moves(game)) = 0 THEN noMovesResult(game, maximizing)
            ELSE IF maximizing
            THEN maxLoop(game, depth, alpha, beta, aiColor, 1,
                         NegInfinity, NullMove, {}, 1)
            ELSE minLoop(game, depth, alpha, beta, aiColor, 1,
                         Infinity, NullMove, {}, 1)

\* the move returned is left applied to the position
searchLeavesMove(fen, depth, aiColor) ==
    LET r == minimax(Chess(fen), depth, NegInfinity, Infinity, aiColor)
    IN IF r.move = NullMove THEN r ELSE [r EXCEPT !.game = played(r.game, r.move)]

\* aiWorker.ts lines 120-121: the search of one compute request
search(fen, depth, aiColor) ==
    minimax(Chess(fen), depth, NegInfinity, Infinity, aiColor)

-----------------------------------------------------------------------------
(* ai.ts: the worker facade.  The operations are functions on the machine  *)
(* state M: the module variables of ai.ts, the promises handed out, the    *)
(* worker instances, the store, and the promises settled by the running    *)
(* handler whose continuations run when it returns (micro).                *)

Machine ==
    [aiWorker |-> aiWorker, nextRequestId |-> nextRequestId,
     pendingRequests |-> pendingRequests, calls |-> calls,
     workers |-> workers, store |-> store, micro |-> <<>>]

\* new Worker(...): nothing received, nothing posted, no error reported.
\* inbox: the messages received and not yet handled; outbox: the replies
\* posted and not yet dispatched to the owner; errors: the error events not
\* yet dispatched, each with the call whose message raised it.  searches
\* counts the minimax invocations of handleCompute and posted lists every
\* reply the instance has posted.
NewWorker == [terminated |-> FALSE, endedBy |-> "", inbox |-> <<>>,
              outbox |-> <<>>, errors |-> <<>>, searches |-> 0, posted |-> <<>>]

\* the promise of a computeBestMove call, with the request it stands for
NewCall(id, worker, options, task) ==
    [id |-> id, worker |-> worker, fen |-> options.fen, depth |-> options.depth,
     aiColor |-> options.aiColor, task |-> task,
     state |-> "pending", value |-> NullMove, by |-> 0, cause |-> "",
     settles |-> 0, removals |-> 0, stale |-> FALSE]

MinOf(S) == CHOOSE x \in S : \A y \in S : x <= y

\* resolve(value) / reject(error) of the promise of call c: the first one
\* settles it and schedules its continuation
settle(M, c, how, value, by, cause) ==
    IF M.calls[c].state = "pending"
    THEN [M EXCEPT !.calls[c].state = how, !.calls[c].value = value,
                   !.calls[c].by = by, !.calls[c].cause = cause,
                   !.calls[c].settles = @ + 1,
                   !.micro = Append(@, c)]
    ELSE [M EXCEPT !.calls[c].settles = @ + 1]

\* pendingRequests.delete(id)
deleteEntry(M, id) ==
    IF id \notin DOMAIN M.pendingRequests THEN M
    ELSE [M EXCEPT !.calls[M.pendingRequests[id]].removals = @ + 1,
                   !.pendingRequests =
                        [k \in (DOMAIN M.pendingRequests) \ {id} |-> M.pendingRequests[k]]]

\* the entry of the smallest id is settled, whatever id the response carries
handleWorkerMessageFirstEntry(M, data) ==
    IF DOMAIN M.pendingRequests = {} THEN M
    ELSE LET id == MinOf(DOMAIN M.pendingRequests)
         IN settle(deleteEntry(M, id), M.pendingRequests[id],
                   "resolved", data.move, data.id, "message")

\* the entry is left in the table when its promise is resolved
handleWorkerMessageKeepEntry(M, data) ==
    IF data.id \notin DOMAIN M.pendingRequests THEN M
    ELSE settle(M, M.pendingRequests[data.id], "resolved", data.move, data.id, "message")

\* a response with an unknown id settles the entry of the smallest id
handleWorkerMessageUnknownSettles(M, data) ==
    IF data.id \in DOMAIN M.pendingRequests
    THEN settle(deleteEntry(M, data.id), M.pendingRequests[data.id],
                "resolved", data.move, data.id, "message")
    ELSE IF DOMAIN M.pendingRequests = {} THEN M
    ELSE LET id == MinOf(DOMAIN M.pendingRequests)
         IN settle(deleteEntry(M, id), M.pendingRequests[id],
                   "resolved", data.move, data.id, "message")

\* lines 23-31
handleWorkerMessage(M, data) ==
    IF data.id \notin DOMAIN M.pendingRequests THEN M
    ELSE settle(deleteEntry(M, data.id), M.pendingRequests[data.id],
                "resolved", data.move, data.id, "message")

RECURSIVE rejectEach(_, _, _)
\* pendingRequests.forEach(({reject}) => reject(...)), over the ids left
rejectEach(M, ids, cause) ==
    IF ids = {} THEN M
    ELSE LET id == MinOf(ids)
         IN rejectEach(settle(M, M.pendingRequests[id], "rejected", NullMove, 0, cause),
                       ids \ {id}, cause)

RECURSIVE clearEach(_, _)
\* pendingRequests.clear()
clearEach(M, ids) ==
    IF ids = {} THEN M
    ELSE clearEach(deleteEntry(M, MinOf(ids)), ids \ {MinOf(ids)})

\* the table is left as it is
clearPendingNothing(M) == M

clearPending(M) == clearEach(M, DOMAIN M.pendingRequests)

\* the replies posted and not yet dispatched survive the termination
terminatedKeepsReplies(w, cause) ==
    [w EXCEPT !.terminated = TRUE, !.endedBy = cause, !.inbox = <<>>,
              !.errors = <<>>]

\* worker.terminate(): the instance stops; what it received and has not
\* handled, and what it posted and was not yet dispatched, is discarded
terminated(w, cause) ==
    [w EXCEPT !.terminated = TRUE, !.endedBy = cause, !.inbox = <<>>,
              !.outbox = <<>>, !.errors = <<>>]

\* the pending table is not cleared
terminateWorkerKeepEntries(M, cause) ==
    IF M.aiWorker = 0 THEN M
    ELSE LET M1 == [M EXCEPT !.workers[M.aiWorker] = terminated(@, cause),
                             !.aiWorker = 0]
         IN [rejectEach(M1, DOMAIN M1.pendingRequests, cause) EXCEPT !.nextRequestId = 1]

\* lines 57-68; cause tells the two callers apart
terminateWorker(M, cause) ==
    IF M.aiWorker = 0 THEN M
    ELSE LET M1 == [M EXCEPT !.workers[M.aiWorker] = terminated(@, cause),
                             !.aiWorker = 0]
             M2 == rejectEach(M1, DOMAIN M1.pendingRequests, cause)
         IN [clearPending(M2) EXCEPT !.nextRequestId = 1]

\* the worker is terminated and the slot cleared; the promises are left
\* pending and the table is left as it is
terminateAiWorkerSlotOnly(M) ==
    IF M.aiWorker = 0 THEN M
    ELSE [M EXCEPT !.workers[M.aiWorker] = terminated(@, "terminate"),
                   !.aiWorker = 0, !.nextRequestId = 1]

terminateAiWorker(M) == terminateWorker(M, "terminate")

\* only the oldest pending request is rejected
handleWorkerErrorOnlyOne(M) ==
    terminateWorker(
        clearPending(rejectEach(M, IF DOMAIN M.pendingRequests = {} THEN {}
                                   ELSE {MinOf(DOMAIN M.pendingRequests)}, "fault")),
        "fault")

\* lines 33-43
handleWorkerError(M) ==
    terminateWorker(clearPending(rejectEach(M, DOMAIN M.pendingRequests, "fault")),
                    "fault")

\* the slot is not looked at: every call creates a worker
ensureWorkerAlways(M) ==
    [M EXCEPT !.workers = Append(@, NewWorker), !.aiWorker = Len(M.workers) + 1]

\* lines 45-55
ensureWorker(M) ==
    IF M.aiWorker # 0 THEN M
    ELSE [M EXCEPT !.workers = Append(@, NewWorker), !.aiWorker = Len(M.workers) + 1]

\* the entry is left in the table when postMessage throws
sendRequestKeepEntry(M, worker, requestId, options, c) ==
    LET M1 == [M EXCEPT !.pendingRequests = (requestId :> c) @@ @]
    IN IF options.cloneable
       THEN [M1 EXCEPT !.workers[worker].inbox =
                Append(@, [id |-> requestId, fen |-> options.fen,
                           depth |-> options.depth, aiColor |-> options.aiColor,
                           call |-> c])]
       ELSE settle(M1, c, "rejected", NullMove, 0, "send")

\* lines 79-92: the promise executor.  worker.postMessage throws when the
\* message cannot be cloned.
sendRequest(M, worker, requestId, options, c) ==
    LET M1 == [M EXCEPT !.pendingRequests = (requestId :> c) @@ @]
    IN IF options.cloneable
       THEN [M1 EXCEPT !.workers[worker].inbox =
                Append(@, [id |-> requestId, fen |-> options.fen,
                           depth |-> options.depth, aiColor |-> options.aiColor,
                           call |-> c])]
       ELSE settle(deleteEntry(M1, requestId), c, "rejected", NullMove, 0, "send")

\* the call does nothing while an earlier request is outstanding
computeBestMoveWhenIdle(M, options, task) ==
    LET M1 == ensureWorker(M)
        worker == M1.aiWorker
        requestId == M1.nextRequestId
        c == Len(M1.calls) + 1
        M2 == [M1 EXCEPT !.nextRequestId = @ + 1,
                         !.calls = Append(@, NewCall(requestId, worker, options, task))]
    IN IF DOMAIN M.pendingRequests # {} THEN M
       ELSE sendRequest(M2, worker, requestId, options, c)

\* nextRequestId is not advanced
computeBestMoveSameId(M, options, task) ==
    LET M1 == ensureWorker(M)
        worker == M1.aiWorker
        requestId == M1.nextRequestId
        c == Len(M1.calls) + 1
        M2 == [M1 EXCEPT !.calls = Append(@, NewCall(requestId, worker, options, task))]
    IN sendRequest(M2, worker, requestId, options, c)

\* lines 70-93; task is the store's task that awaits the promise (0: none)
computeBestMove(M, options, task) ==
    LET M1 == ensureWorker(M)
        worker == M1.aiWorker
        requestId == M1.nextRequestId
        c == Len(M1.calls) + 1
        M2 == [M1 EXCEPT !.nextRequestId = @ + 1,
                         !.calls = Append(@, NewCall(requestId, worker, options, task))]
    IN sendRequest(M2, worker, requestId, options, c)

-----------------------------------------------------------------------------
(* aiWorker.ts: the worker's message handler.                              *)

\* lines 121-122: the reply to a compute message
reply(message) ==
    [id |-> message.id,
     move |-> search(message.fen, message.depth, message.aiColor).move,
     call |-> message.call]

\* the exception of new Chess(fen) is caught and answered with a null move
handleComputeRepliesNull(w) ==
    LET message == Head(w.inbox)
        rest == [w EXCEPT !.inbox = Tail(@)]
        caught == [id |-> message.id, move |-> NullMove, call |-> message.call]
    IN IF ~message.fen.ok
       THEN [rest EXCEPT !.outbox = Append(@, caught),
                         !.posted = Append(@, caught)]
       ELSE [rest EXCEPT !.searches = @ + 1,
                         !.outbox = Append(@, reply(message)),
                         !.posted = Append(@, reply(message))]

\* the reply is posted twice
handleComputeTwoReplies(w) ==
    LET message == Head(w.inbox)
        rest == [w EXCEPT !.inbox = Tail(@)]
    IN IF ~message.fen.ok
       THEN [rest EXCEPT !.errors = Append(@, message.call)]
       ELSE [rest EXCEPT !.searches = @ + 1,
                         !.outbox = Append(Append(@, reply(message)), reply(message)),
                         !.posted = Append(Append(@, reply(message)), reply(message))]

\* the newest message received is handled first
handleComputeNewestFirst(w) ==
    LET message == w.inbox[Len(w.inbox)]
        rest == [w EXCEPT !.inbox = SubSeq(@, 1, Len(@) - 1)]
    IN IF ~message.fen.ok
       THEN [rest EXCEPT !.errors = Append(@, message.call)]
       ELSE [rest EXCEPT !.searches = @ + 1,
                         !.outbox = Append(@, reply(message)),
                         !.posted = Append(@, reply(message))]

\* lines 118-134, on the worker record w: the oldest message received is
\* handled.  new Chess(fen) throws on a malformed fen; nothing catches it,
\* no reply is posted and the worker reports an error to its owner.
handleCompute(w) ==
    LET message == Head(w.inbox)
        rest == [w EXCEPT !.inbox = Tail(@)]
    IN IF ~message.fen.ok
       THEN [rest EXCEPT !.errors = Append(@, message.call)]
       ELSE [rest EXCEPT !.searches = @ + 1,
                         !.outbox = Append(@, reply(message)),
                         !.posted = Append(@, reply(message))]

-----------------------------------------------------------------------------
(* stores/chess.ts: the game store.  S is the record of its refs and       *)
(* locals; the operations that reach computeBestMove work on M.            *)

AI_DEPTH_MAP(d) ==
    CASE d = "easy" -> 1
      [] d = "medium" -> 2
      [] d = "hard" -> 3

NoPromotion == [from |-> 0, to |-> 0, color |-> "none", moves |-> <<>>]

\* lines 26-53 and 339: the store as defineStore leaves it
InitStore ==
    [game |-> NewGame, selectedSquare |-> 0, legalMoves |-> <<>>,
     lastMove |-> NullMove, history |-> <<>>,
     turnColor |-> "w", isGameOver |-> FALSE, isCheck |-> FALSE,
     showResultModal |-> FALSE, isSetupComplete |-> FALSE,
     pendingPromotion |-> NoPromotion, mode |-> "pvp",
     aiDifficulty |-> "medium", aiColor |-> "b",
     isAiThinking |-> FALSE, aiTaskId |-> 0]

\* lines 94-107
refreshDerivedState(S) ==
    [S EXCEPT !.turnColor = turn(S.game),
              !.isCheck = isCheck(S.game),
              !.isGameOver = isGameOver(S.game),
              !.showResultModal = IF isGameOver(S.game) THEN TRUE ELSE @]

\* lines 109-113
updateBoard(S) == refreshDerivedState([S EXCEPT !.history = S.game.hist])

\* lines 115-118
clearSelection(S) == [S EXCEPT !.selectedSquare = 0, !.legalMoves = <<>>]

\* the task counter is left alone
cancelAiComputationNoAdvance(S) == [S EXCEPT !.isAiThinking = FALSE]

\* lines 209-212
cancelAiComputation(S) == [S EXCEPT !.aiTaskId = @ + 1, !.isAiThinking = FALSE]

\* lines 214-224: requestAiMove up to its await
requestAiMove(M) ==
    LET S == M.store
    IN IF ~S.isSetupComplete \/ S.pendingPromotion # NoPromotion THEN M
       ELSE LET currentTask == S.aiTaskId + 1
                M1 == [M EXCEPT !.store.aiTaskId = currentTask,
                                !.store.isAiThinking = TRUE]
            IN computeBestMove(M1, [fen |-> Fen(S.game),
                                    depth |-> AI_DEPTH_MAP(S.aiDifficulty),
                                    aiColor |-> S.aiColor,
                                    cloneable |-> TRUE],
                               currentTask)

\* lines 265-275
handlePostMove(M, actor) ==
    LET S == M.store
    IN IF /\ actor = "player"
          /\ S.mode = "pvai"
          /\ S.isSetupComplete
          /\ ~isGameOver(S.game)
          /\ turn(S.game) = S.aiColor
       THEN requestAiMove(M)
       ELSE M

\* lines 170-183, 235-253, 292-311: game.move and what follows a move that
\* was executed; a move the rules engine refuses changes nothing
playMove(M, from, to, promotion, actor) ==
    LET S == M.store
        i == MoveIndex(S.game, from, to, promotion)
    IN IF i = 0 THEN [M EXCEPT !.store = refreshDerivedState(S)]
       ELSE LET executed == moves(S.game)[i]
                S1 == [S EXCEPT !.game = gameMove(S.game, from, to, promotion),
                                !.lastMove = executed]
            IN handlePostMove([M EXCEPT !.store = clearSelection(updateBoard(S1))],
                              actor)

\* the test that the task is still the current one is left out
staleTaskNever(S, currentTask) == FALSE

\* line 226: the response belongs to a task that is no longer current
staleTask(S, currentTask) == S.aiTaskId # currentTask

\* the finally block clears the flag whatever the current task is
afterAwaitAlwaysClears(M, c) ==
    LET call == M.calls[c]
        S == M.store
        finally(N) == [N EXCEPT !.store.isAiThinking = FALSE]
    IN IF call.task = 0 THEN M
       ELSE IF call.state = "rejected" THEN finally(M)
       ELSE IF staleTask(S, call.task)
            THEN finally([M EXCEPT !.calls[c].stale = TRUE])
       ELSE IF call.value = NullMove
            THEN finally([M EXCEPT !.store = refreshDerivedState(S)])
       ELSE finally(playMove(M, call.value.from, call.value.to,
                             IF call.value.promotion = "none" THEN "q"
                             ELSE call.value.promotion, "ai"))

\* the finally block leaves the flag as it is
afterAwaitKeepsFlag(M, c) ==
    LET call == M.calls[c]
        S == M.store
        finally(N) == N
    IN IF call.task = 0 THEN M
       ELSE IF call.state = "rejected" THEN finally(M)
       ELSE IF staleTask(S, call.task)
            THEN finally([M EXCEPT !.calls[c].stale = TRUE])
       ELSE IF call.value = NullMove
            THEN finally([M EXCEPT !.store = refreshDerivedState(S)])
       ELSE finally(playMove(M, call.value.from, call.value.to,
                             IF call.value.promotion = "none" THEN "q"
                             ELSE call.value.promotion, "ai"))

\* lines 225-262: requestAiMove after its await, for the promise of call c
afterAwait(M, c) ==
    LET call == M.calls[c]
        S == M.store
        finally(N) == IF N.store.aiTaskId = call.task
                      THEN [N EXCEPT !.store.isAiThinking = FALSE]
                      ELSE N
    IN IF call.task = 0 THEN M
       ELSE IF call.state = "rejected" THEN finally(M)
       ELSE IF staleTask(S, call.task)
            THEN finally([M EXCEPT !.calls[c].stale = TRUE])
       ELSE IF call.value = NullMove
            THEN finally([M EXCEPT !.store = refreshDerivedState(S)])
       ELSE finally(playMove(M, call.value.from, call.value.to,
                             IF call.value.promotion = "none" THEN "q"
                             ELSE call.value.promotion, "ai"))

RECURSIVE runFrom(_, _)
runFrom(M, i) ==
    IF i > Len(M.micro) THEN [M EXCEPT !.micro = <<>>]
    ELSE runFrom(afterAwait(M, M.micro[i]), i + 1)

\* the handler has returned: the continuations of the promises it settled
\* run, in the order in which they were settled
drain(M) == runFrom(M, 1)

\* lines 146-184
executeMove(M, target) ==
    LET S == M.store
        movesToTarget == SelectSeq(S.legalMoves, LAMBDA m : m.to = target)
        promotionMoves == SelectSeq(movesToTarget, LAMBDA m : m.promotion # "none")
    IN IF S.selectedSquare = 0 \/ Len(movesToTarget) = 0 THEN M
       ELSE IF Len(promotionMoves) > 0
            THEN [M EXCEPT !.store.pendingPromotion =
                     [from |-> S.selectedSquare, to |-> target,
                      color |-> board(S.game)[S.selectedSquare].color,
                      moves |-> promotionMoves]]
       ELSE LET moveToPlay == movesToTarget[1]
            IN IF MoveIndex(S.game, moveToPlay.from, moveToPlay.to, "q") = 0 THEN M
               ELSE playMove(M, moveToPlay.from, moveToPlay.to, "q", "player")

\* the guard on a running computation is left out
selectSquareUnguarded(M, square) ==
    LET S == M.store
    IN IF ~S.isSetupComplete \/ S.pendingPromotion # NoPromotion THEN M
       ELSE IF S.selectedSquare # 0
               /\ \E i \in 1..Len(S.legalMoves) : S.legalMoves[i].to = square
            THEN executeMove(M, square)
       ELSE LET piece == board(S.game)[square]
            IN IF piece # Empty /\ piece.color = turn(S.game)
               THEN [M EXCEPT !.store.selectedSquare = square,
                              !.store.legalMoves =
                                  SelectSeq(moves(S.game), LAMBDA m : m.from = square)]
               ELSE [M EXCEPT !.store = clearSelection(S)]

\* lines 120-144
selectSquare(M, square) ==
    LET S == M.store
    IN IF ~S.isSetupComplete \/ S.pendingPromotion # NoPromotion THEN M
       ELSE IF S.mode = "pvai" /\ S.isAiThinking THEN M
       ELSE IF S.selectedSquare # 0
               /\ \E i \in 1..Len(S.legalMoves) : S.legalMoves[i].to = square
            THEN executeMove(M, square)
       ELSE LET piece == board(S.game)[square]
            IN IF piece # Empty /\ piece.color = turn(S.game)
               THEN [M EXCEPT !.store.selectedSquare = square,
                              !.store.legalMoves =
                                  SelectSeq(moves(S.game), LAMBDA m : m.from = square)]
               ELSE [M EXCEPT !.store = clearSelection(S)]

\* lines 186-203; triggerAi is "default" when the option is not given
reset(M, triggerAiOption) ==
    LET S == M.store
        triggerAi == IF triggerAiOption = "default"
                     THEN S.isSetupComplete /\ S.mode = "pvai" /\ S.aiColor = "w"
                     ELSE triggerAiOption = "true"
        S1 == [cancelAiComputation(S) EXCEPT !.pendingPromotion = NoPromotion,
                                             !.game = NewGame]
        S2 == [clearSelection([updateBoard(S1) EXCEPT !.lastMove = NullMove])
                  EXCEPT !.showResultModal = FALSE]
        M1 == [M EXCEPT !.store = S2]
    IN IF triggerAi /\ ~isGameOver(S2.game) THEN requestAiMove(M1) ELSE M1

\* lines 205-207
dismissResult(M) == [M EXCEPT !.store.showResultModal = FALSE]

\* lines 277-312
promotePawn(M, promotion) ==
    LET S == M.store
        pending == S.pendingPromotion
        found == {i \in 1..Len(pending.moves) : pending.moves[i].promotion = promotion}
        S1 == [S EXCEPT !.pendingPromotion = NoPromotion]
    IN IF pending = NoPromotion THEN M
       ELSE IF found = {} THEN [M EXCEPT !.store = clearSelection(S1)]
       ELSE LET moveToPlay == pending.moves[MinOf(found)]
            IN IF MoveIndex(S.game, moveToPlay.from, moveToPlay.to, promotion) = 0
               THEN [M EXCEPT !.store = clearSelection(refreshDerivedState(S1))]
               ELSE playMove([M EXCEPT !.store = S1],
                             moveToPlay.from, moveToPlay.to, promotion, "player")

\* the cancellation terminates the worker
beginSetupTerminates(M) ==
    terminateAiWorker(
        [M EXCEPT !.store = [cancelAiComputation(M.store) EXCEPT !.isSetupComplete = FALSE]])

\* lines 314-317
beginSetup(M) ==
    [M EXCEPT !.store = [cancelAiComputation(M.store) EXCEPT !.isSetupComplete = FALSE]]

\* the side to move is not looked at
cancelSetupAnyTurn(M) ==
    LET S == M.store
        M1 == [M EXCEPT !.store.isSetupComplete = TRUE]
    IN IF S.isSetupComplete THEN M
       ELSE IF S.mode = "pvai" /\ ~isGameOver(S.game)
            THEN requestAiMove(M1)
       ELSE M1

\* lines 319-328
cancelSetup(M) ==
    LET S == M.store
        M1 == [M EXCEPT !.store.isSetupComplete = TRUE]
    IN IF S.isSetupComplete THEN M
       ELSE IF S.mode = "pvai" /\ turn(S.game) = S.aiColor /\ ~isGameOver(S.game)
            THEN requestAiMove(M1)
       ELSE M1

\* lines 330-337
applySetup(M, options) ==
    LET S1 == [cancelAiComputation(M.store) EXCEPT !.mode = options.mode,
                                                   !.aiDifficulty = options.aiDifficulty,
                                                   !.aiColor = options.aiColor,
                                                   !.isSetupComplete = TRUE]
    IN reset([M EXCEPT !.store = S1],
             IF options.mode = "pvai" /\ options.aiColor = "w" THEN "true" ELSE "false")

-----------------------------------------------------------------------------
(* views/OnlineGameView.vue: the auto-join evaluation of the lobby.  L is  *)
(* the record of the two flags, of the refs the evaluation reads and       *)
(* writes, and of the await at which a run is suspended (pc).  triggers,   *)
(* runs, ended, lastEnd and owed record what has happened: the calls of    *)
(* queueAutoJoinEvaluation by the watcher, the runs started and ended, how *)
(* the last run ended, and whether a trigger has arrived that no run has   *)
(* been started after.                                                     *)

\* triggers of the watcher per run of the model
MaxTriggers == 4

\* the room of the membership in rooms.value: absent, waiting or playing
RoomStates == {"none", "waiting", "playing"}

\* lines 856, 877-883; lock is the room id found in the session storage
NewLobby(lock) ==
    [autoJoinEvaluationInFlight |-> FALSE, autoJoinEvaluationPending |-> FALSE,
     pc |-> "none",
     membershipRoomId |-> 0, room |-> "none",
     suppressAutoJoin |-> (lock # 0), autoJoinLockRoomId |-> lock,
     hasNavigatedToGame |-> FALSE,
     triggers |-> 0, runs |-> 0, ended |-> 0, lastEnd |-> "none", owed |-> FALSE]

RECURSIVE queueAutoJoinEvaluation(_)
RECURSIVE evaluateMembershipAutoJoin(_)
RECURSIVE finallyBlock(_, _)

\* lines 1195-1201: the finally block of a run that ends by how
finallyBlock(L, how) ==
    LET L1 == [L EXCEPT !.autoJoinEvaluationInFlight = FALSE, !.pc = "none",
                        !.ended = @ + 1, !.lastEnd = how]
    IN IF L1.autoJoinEvaluationPending
       THEN queueAutoJoinEvaluation([L1 EXCEPT !.autoJoinEvaluationPending = FALSE])
       ELSE L1

\* lines 1150-1155, 1161-1166
clearSuppressAndLock(L) ==
    [L EXCEPT !.suppressAutoJoin = FALSE, !.autoJoinLockRoomId = 0]

\* lines 1147-1177: a run up to its first await, or to its end
evaluateMembershipAutoJoin(L) ==
    LET L0 == [L EXCEPT !.runs = @ + 1, !.owed = FALSE]
    IN IF L0.membershipRoomId = 0 THEN finallyBlock(clearSuppressAndLock(L0), "return")
       ELSE IF L0.room = "none" THEN finallyBlock(clearSuppressAndLock(L0), "return")
       ELSE IF L0.autoJoinLockRoomId # 0 /\ L0.autoJoinLockRoomId = L0.membershipRoomId
            THEN IF L0.room = "playing" THEN finallyBlock(L0, "return")
                 ELSE [L0 EXCEPT !.autoJoinLockRoomId = 0, !.pc = "active"]
       ELSE [L0 EXCEPT !.pc = "active"]

\* lines 1179-1194: the run after isRoomActiveForAutoJoin has answered
afterRoomActive(L, shouldAutoJoin) ==
    IF ~shouldAutoJoin THEN finallyBlock([L EXCEPT !.suppressAutoJoin = FALSE], "return")
    ELSE IF L.suppressAutoJoin THEN finallyBlock(L, "return")
    ELSE IF L.hasNavigatedToGame THEN finallyBlock(L, "return")
    ELSE [L EXCEPT !.hasNavigatedToGame = TRUE, !.pc = "push"]

\* lines 1194-1201: the run after router.push has settled; a rejection
\* leaves the function through the finally block
afterPush(L, fulfilled) == finallyBlock(L, IF fulfilled THEN "return" ELSE "throw")

\* a trigger that arrives during a run is dropped
queueAutoJoinEvaluationDropsTrigger(L) ==
    IF L.autoJoinEvaluationInFlight THEN L
    ELSE evaluateMembershipAutoJoin([L EXCEPT !.autoJoinEvaluationInFlight = TRUE,
                                             !.autoJoinEvaluationPending = FALSE])

\* lines 1136-1145
queueAutoJoinEvaluation(L) ==
    IF L.autoJoinEvaluationInFlight THEN [L EXCEPT !.autoJoinEvaluationPending = TRUE]
    ELSE evaluateMembershipAutoJoin([L EXCEPT !.autoJoinEvaluationInFlight = TRUE,
                                             !.autoJoinEvaluationPending = FALSE])

-----------------------------------------------------------------------------
(* The synthetic game trees the search is checked on: every leaf position  *)
(* is one of LeafKinds, every inner position has MaxBranch moves, and at   *)
(* most one position below the root is replaced by a special kind (game    *)
(* over, drawn, a single move, another board).                             *)

LeafKinds == {"even", "wup"}
SpecialKinds == {"mate", "stale", "draw", "mate50", "one", "bup"}
LeafPaths == [1..MaxPly -> 1..MaxBranch]

TreeOf(leaves, at, kind) ==
    [p \in Paths |->
        IF p = at /\ p # <<>> THEN kind
        ELSE IF Len(p) = MaxPly THEN leaves[p]
        ELSE "even"]


NoQuery == [pos |-> <<>>, depth |-> 0, aiColor |-> "none"]
NoResult == Res(0, NullMove, NewGame, {}, 0)

\* the positions a search is started from, and the depths that stay
\* within the tree
QueryStarts == {<<>>, <<1>>}

InitIdle ==
    /\ rules = RulesTable
    /\ aiWorker = 0
    /\ nextRequestId = 1
    /\ pendingRequests = <<>>
    /\ calls = <<>>
    /\ workers = <<>>
    /\ store = InitStore
    /\ lobby = NewLobby(0)

\* the number of plies the game `world` is defined for
Horizon ==
    IF world = StartGame THEN 1
    ELSE IF world = PromotedGame THEN 0
    ELSE MaxPly

InitSearch ==
    /\ \/ world = StartGame
       \/ world = PromotedGame
       \/ \E leaves \in [LeafPaths -> LeafKinds], at \in Paths, kind \in SpecialKinds :
            world = TreeOf(leaves, at, kind)
    /\ query = NoQuery
    /\ result = NoResult
    /\ InitIdle

\* one invocation of the search on a position of the tree
Search(p, d, c) ==
    /\ query = NoQuery
    /\ Len(p) + d <= Horizon
    /\ query' = [pos |-> p, depth |-> d, aiColor |-> c]
    /\ result' = search([ok |-> TRUE, pos |-> p], d, c)
    /\ UNCHANGED <<world, rules, aiWorker, nextRequestId, pendingRequests, calls,
                   workers, store, lobby>>

NextSearch ==
    \E p \in QueryStarts : \E d \in 0..(MaxPly - Len(p)) : \E c \in Colors :
        Search(p, d, c)

SpecSearch == InitSearch /\ [][NextSearch]_vars

-----------------------------------------------------------------------------
(* The facade, the worker and the store as a state machine.                *)

\* computeBestMove calls per run
MaxCalls == 3
\* worker instances per run
MaxWorkers == 2
\* values of the store's task counter
MaxTask == 5

InitApp ==
    /\ world = StoreGame
    /\ query = NoQuery
    /\ result = NoResult
    /\ InitIdle

Within(M) ==
    /\ Len(M.calls) <= MaxCalls
    /\ Len(M.workers) <= MaxWorkers
    /\ M.store.aiTaskId <= MaxTask

\* the state the handler and the continuations it scheduled leave
Commit(M) ==
    /\ Within(M)
    /\ aiWorker' = M.aiWorker
    /\ nextRequestId' = M.nextRequestId
    /\ pendingRequests' = M.pendingRequests
    /\ calls' = M.calls
    /\ workers' = M.workers
    /\ store' = M.store
    /\ UNCHANGED <<world, rules, query, result, lobby>>

Step(M) == Commit(drain(M))

\* what a caller of the facade passes: a position of the game or a string
\* that is no FEN, and possibly something postMessage cannot clone
ApiOptions ==
    [fen : {[ok |-> TRUE, pos |-> <<>>], [ok |-> TRUE, pos |-> <<1, 1>>], BadFen},
     depth : {1}, aiColor : {"w"}, cloneable : BOOLEAN]

\* a caller of the facade asks for a move
ApiCompute(options) == Step(computeBestMove(Machine, options, 0))

\* a caller of the facade terminates the worker
ApiTerminate == Step(terminateAiWorker(Machine))

\* the live worker handles the oldest message it received
WorkerHandle ==
    /\ aiWorker # 0
    /\ workers[aiWorker].inbox # <<>>
    /\ Step([Machine EXCEPT !.workers[aiWorker] = handleCompute(@)])

Without(seq, i) == SubSeq(seq, 1, i - 1) \o SubSeq(seq, i + 1, Len(seq))

\* line 51: the 'message' listener of worker instance v is run for the i-th
\* of the replies that the instance has posted and that wait to be dispatched
DeliverFrom(v, i) ==
    /\ i \in 1..Len(workers[v].outbox)
    /\ Step(handleWorkerMessage(
                [Machine EXCEPT !.workers[v].outbox = Without(@, i)],
                workers[v].outbox[i]))

\* the 'message' event of the i-th waiting reply of some worker instance
DeliverMessage(i) == \E v \in 1..Len(workers) : DeliverFrom(v, i)

\* the 'error' event of an exception the live worker did not catch
DeliverError ==
    /\ aiWorker # 0
    /\ workers[aiWorker].errors # <<>>
    /\ Step(handleWorkerError([Machine EXCEPT !.workers[aiWorker].errors = Tail(@)]))

\* an 'error' or 'messageerror' event that no request caused
WorkerFault ==
    /\ aiWorker # 0
    /\ Step(handleWorkerError(Machine))

\* the facade under arbitrary callers; responses may be dispatched in any
\* order
NextFacade ==
    \/ \E options \in ApiOptions : ApiCompute(options)
    \/ ApiTerminate
    \/ WorkerHandle
    \/ \E i \in 1..MaxCalls : DeliverMessage(i)
    \/ DeliverError
    \/ WorkerFault

SpecFacade == InitApp /\ [][NextFacade]_vars

\* The facade when the worker may post a message that answers no request
\* (the worker of this repository posts nothing but the replies of
\* handleCompute): the live instance posts a message with any id, once in
\* a behaviour.
StrayIds == 1..(MaxCalls + 1)
StrayMoves == {NullMove}

WorkerStray(id, move) ==
    /\ aiWorker # 0
    /\ \A v \in 1..Len(workers) :
           \A i \in 1..Len(workers[v].posted) : workers[v].posted[i].call # 0
    /\ LET message == [id |-> id, move |-> move, call |-> 0]
       IN Step([Machine EXCEPT !.workers[aiWorker].outbox = Append(@, message),
                               !.workers[aiWorker].posted = Append(@, message)])

NextMessages ==
    \/ NextFacade
    \/ \E id \in StrayIds : \E move \in StrayMoves : WorkerStray(id, move)

SpecMessages == InitApp /\ [][NextMessages]_vars

SetupOptions ==
    [mode : {"pvp", "pvai"}, aiDifficulty : {"easy", "medium", "hard"},
     aiColor : Colors]

SelectSquare(square) == Step(selectSquare(Machine, square))
PromotePawn(promotion) == Step(promotePawn(Machine, promotion))
\* App.vue:88 and :169 call reset(), ChessGameShell.vue:103 reset({triggerAi: false})
Reset(triggerAiOption) == Step(reset(Machine, triggerAiOption))
DismissResult == Step(dismissResult(Machine))
BeginSetup == Step(beginSetup(Machine))
CancelSetup == Step(cancelSetup(Machine))
ApplySetup(options) == Step(applySetup(Machine, options))

\* the application: the store is the only caller of the facade, and the
\* responses of a worker are dispatched in the order in which it posted them
Next ==
    \/ \E square \in StoreSquares : SelectSquare(square)
    \/ \E promotion \in {"q", "r", "b", "n"} : PromotePawn(promotion)
    \/ \E option \in {"default", "false"} : Reset(option)
    \/ DismissResult
    \/ BeginSetup
    \/ CancelSetup
    \/ \E options \in SetupOptions : ApplySetup(options)
    \/ WorkerHandle
    \/ DeliverMessage(1)
    \/ WorkerFault

Spec == InitApp /\ [][Next]_vars

\* The scheduling of the two event loops.  The worker handles a message
\* that waits in its inbox unless it is terminated first, and the page
\* dispatches a reply that has been posted unless the worker is terminated
\* first: weak fairness of WorkerHandle and of DeliverMessage(1), written
\* with the conditions under which the two actions are enabled and the
\* steps they take (the step of WorkerHandle is the one that shortens the
\* inbox of the instance in the slot, that of DeliverMessage(1) the one
\* that shortens its outbox).
CanHandle == aiWorker # 0 /\ workers[aiWorker].inbox # <<>>
Handled ==
    /\ aiWorker # 0
    /\ aiWorker' = aiWorker
    /\ Len(workers'[aiWorker].inbox) < Len(workers[aiWorker].inbox)
CanDeliver == aiWorker # 0 /\ workers[aiWorker].outbox # <<>>
Dispatched ==
    /\ aiWorker # 0
    /\ aiWorker' = aiWorker
    /\ Len(workers'[aiWorker].outbox) < Len(workers[aiWorker].outbox)

Fairness ==
    /\ ([]<>~CanHandle \/ []<><<Handled>>_vars)
    /\ ([]<>~CanDeliver \/ []<><<Dispatched>>_vars)

SpecLive == Spec /\ Fairness

-----------------------------------------------------------------------------
(* The lobby as a state machine.                                           *)

InitLobby ==
    /\ world = StoreGame
    /\ query = NoQuery
    /\ result = NoResult
    /\ rules = RulesTable
    /\ aiWorker = 0
    /\ nextRequestId = 1
    /\ pendingRequests = <<>>
    /\ calls = <<>>
    /\ workers = <<>>
    /\ store = InitStore
    /\ \E lock \in {0, 1} : lobby = NewLobby(lock)

LobbyStep(L) ==
    /\ lobby' = L
    /\ UNCHANGED <<world, rules, query, result, aiWorker, nextRequestId, pendingRequests,
                   calls, workers, store>>

\* lines 1541-1552: the refs that the watcher observes have changed (the
\* membership, the rooms, suppressAutoJoin, the lock) and its callback
\* calls queueAutoJoinEvaluation
Trigger(member, room, suppress, lock) ==
    /\ lobby.triggers < MaxTriggers
    /\ LobbyStep(queueAutoJoinEvaluation(
            [lobby EXCEPT !.membershipRoomId = member, !.room = room,
                          !.suppressAutoJoin = suppress, !.autoJoinLockRoomId = lock,
                          !.triggers = @ + 1, !.owed = TRUE]))

\* line 1177: isRoomActiveForAutoJoin, which catches what it awaits, answers
ResumeActive(shouldAutoJoin) ==
    /\ lobby.pc = "active"
    /\ LobbyStep(afterRoomActive(lobby, shouldAutoJoin))

\* line 1194: router.push settles
ResumePush(fulfilled) ==
    /\ lobby.pc = "push"
    /\ LobbyStep(afterPush(lobby, fulfilled))

Resume ==
    \/ \E shouldAutoJoin \in BOOLEAN : ResumeActive(shouldAutoJoin)
    \/ \E fulfilled \in BOOLEAN : ResumePush(fulfilled)

NextLobby ==
    \/ \E member \in {0, 1}, room \in RoomStates, suppress \in BOOLEAN, lock \in {0, 1} :
            Trigger(member, room, suppress, lock)
    \/ \E shouldAutoJoin \in BOOLEAN : ResumeActive(shouldAutoJoin)
    \/ \E fulfilled \in BOOLEAN : ResumePush(fulfilled)

\* what a run awaits settles: the query of isRoomActiveForAutoJoin and the
\* navigation of router.push
SpecLobby == InitLobby /\ [][NextLobby]_vars /\ WF_vars(Resume)

-----------------------------------------------------------------------------
(* The search claims (SpecSearch).                                         *)

HasQuery == query # NoQuery
QueryGame == Chess([ok |-> TRUE, pos |-> query.pos])

RECURSIVE exhaustive(_, _, _)
RECURSIVE nodesFrom(_, _)

\* the positions visited below candidates i.. of the reference
nodesFrom(below, i) ==
    IF i > Len(below) THEN 0 ELSE below[i].nodes + nodesFrom(below, i + 1)

\* the reference result at a position, below being the reference results of
\* its legal moves in generator order: the best score is the maximum (engine
\* to move) or the minimum of the scores, starting from -Infinity or
\* +Infinity, and the move is the first one that reaches it strictly
exhaustiveBest(below, game, aiColor) ==
    LET maximizing == turn(game) = aiColor
        start == IF maximizing THEN NegInfinity ELSE Infinity
        scores == {below[i].score : i \in 1..Len(below)} \cup {start}
        best == CHOOSE s \in scores :
                    \A t \in scores : IF maximizing THEN s >= t ELSE s <= t
        reach == {i \in 1..Len(below) : below[i].score = best}
        first == CHOOSE i \in reach : \A j \in reach : i <= j
    IN [score |-> best,
        move |-> IF best = start \/ reach = {} THEN NullMove ELSE moves(game)[first],
        nodes |-> 1 + nodesFrom(below, 1)]

\* The reference of C7: minimax without pruning.  Every legal move is
\* searched, in generator order; the best score is the maximum (engine to
\* move) or the minimum of the scores of the moves, and the move is the
\* first one that reaches it.
exhaustive(game, depth, aiColor) ==
    IF depth = 0 \/ isGameOver(game)
    THEN [score |-> leafResult(game, aiColor).score, move |-> NullMove, nodes |-> 1]
    ELSE exhaustiveBest([i \in 1..Len(moves(game)) |->
                            exhaustive(played(game, moves(game)[i]), depth - 1, aiColor)],
                        game, aiColor)

QueryReference == exhaustive(QueryGame, query.depth, query.aiColor)

SameScoreAndMove(r, ref) == r.score = ref.score /\ r.move = ref.move

\* C7: the root call minimax(position, depth, -Infinity, +Infinity,
\* engineSide) returns the score and the move of the exhaustive minimax
\* with the same generator order and the same first-best tie-break.
C7_PruningEquivalence ==
    HasQuery => SameScoreAndMove(result, QueryReference)

\* a full-depth search that returned a move and visited fewer positions
\* than the exhaustive search does
C7_Witness ==
    /\ HasQuery
    /\ query.depth = MaxPly
    /\ result.move # NullMove
    /\ result.nodes < QueryReference.nodes

\* C8: for a position in which the side to move is checkmated, the search
\* returns no move and the score -10000 when the side to move is the
\* engine's side, +10000 otherwise, at every depth, also when a drawing
\* rule applies to the position as well.
C8_CheckmateScore ==
    (HasQuery /\ isCheckmate(QueryGame)) =>
        /\ result.move = NullMove
        /\ result.score = (IF turn(QueryGame) = query.aiColor THEN 0 - 10000 ELSE 10000)

\* a search of depth 2 for the side that is mated, on a mated position to
\* which the fifty-move rule applies too
C8_Witness ==
    /\ HasQuery
    /\ isCheckmate(QueryGame)
    /\ isDraw(QueryGame)
    /\ query.depth = 2
    /\ turn(QueryGame) = query.aiColor
    /\ result.score = 0 - 10000

\* C9: for a position the rules engine reports as drawn and not as
\* checkmate, the search returns the score 0 and no move at every depth,
\* and hands no position to the static evaluator.
C9_DrawScore ==
    (HasQuery /\ isDraw(QueryGame) /\ ~isCheckmate(QueryGame)) =>
        /\ result.score = 0
        /\ result.move = NullMove
        /\ result.evals = {}

\* a search of depth 2 on a position drawn by rule in which the side to
\* move has legal moves
C9_Witness ==
    /\ HasQuery
    /\ isDraw(QueryGame)
    /\ ~isStalemate(QueryGame)
    /\ Len(moves(QueryGame)) > 0
    /\ query.depth = 2
    /\ result.score = 0

LegalMoves(game) == {moves(game)[i] : i \in 1..Len(moves(game))}

\* C11 as stated: a response carries no move only when the requested
\* position has no legal move, and for every requested position that has a
\* legal move and every depth >= 1 it carries one of the legal moves of that
\* position.
C11_NullOnlyWithoutLegalMove ==
    (HasQuery /\ query.depth >= 1) =>
        /\ result.move = NullMove => Len(moves(QueryGame)) = 0
        /\ Len(moves(QueryGame)) > 0 => result.move \in LegalMoves(QueryGame)

\* C11, amended: for depth >= 1 a response carries no move exactly when the
\* requested position is terminal (the rules engine reports the game over:
\* no legal move, or drawn by rule with legal moves left); for every other
\* requested position it carries one of the legal moves of that position.
C11_NullOnlyWhenGameOver ==
    (HasQuery /\ query.depth >= 1) =>
        IF isGameOver(QueryGame) THEN result.move = NullMove
        ELSE result.move \in LegalMoves(QueryGame)

\* a search of depth 2 on a position that is not over, answered with the
\* second of its legal moves
C11_Witness ==
    /\ HasQuery
    /\ query.depth = 2
    /\ ~isGameOver(QueryGame)
    /\ Len(moves(QueryGame)) = 2
    /\ result.move = moves(QueryGame)[2]

\* the search of the standard starting position, depth 1, for White
StartQuery ==
    /\ HasQuery
    /\ world = StartGame
    /\ query = [pos |-> <<>>, depth |-> 1, aiColor |-> "w"]

\* C23 as stated: for the standard starting position with depth 1 and
\* engine side White, the search returns a move whose score is not
\* negative.
C23_StartScoreNonNegative ==
    StartQuery => (result.move # NullMove /\ result.score >= 0)

\* C23, amended: for the standard starting position with depth 1 and
\* engine side White, the search returns a move, the first in generator
\* order, and its score is -200: after every first move the material is
\* level and Black, to move, has 20 replies, counted at 10 each against
\* White.
C23_StartScore ==
    StartQuery =>
        /\ result.move = moves(QueryGame)[1]
        /\ result.score = 0 - 200

\* the search of the starting position has returned a move with a negative
\* score
C23_Witness ==
    /\ StartQuery
    /\ result.move # NullMove
    /\ result.score < 0
    /\ Len(moves(QueryGame)) = 20

\* the score of the i-th legal move of the position searched, by the
\* exhaustive minimax
ChildScore(i) ==
    exhaustive(played(QueryGame, moves(QueryGame)[i]), query.depth - 1,
               query.aiColor).score

\* score a is strictly better than score b for the side that chooses at the
\* position searched: the engine maximizes, its opponent minimizes
StrictlyBetter(a, b) ==
    IF turn(QueryGame) = query.aiColor THEN a > b ELSE a < b

\* C24: the move returned reaches the returned score, and the returned
\* score is strictly better than the score of every move before it in
\* generator order: among the moves that reach the returned score the
\* first is returned, at a maximizing and at a minimizing node.
C24_FirstBestMove ==
    (HasQuery /\ result.move # NullMove) =>
        \E k \in 1..Len(moves(QueryGame)) :
            /\ result.move = moves(QueryGame)[k]
            /\ ChildScore(k) = result.score
            /\ \A j \in 1..(k - 1) : StrictlyBetter(result.score, ChildScore(j))

\* a search of depth 2 in which the first and the second move reach the
\* returned score, and the first is returned
C24_Witness ==
    /\ HasQuery
    /\ query.depth = 2
    /\ Len(moves(QueryGame)) = 2
    /\ result.move = moves(QueryGame)[1]
    /\ ChildScore(1) = result.score
    /\ ChildScore(2) = result.score

\* C25: when the root call of minimax returns, the position object it has
\* worked on, which handleCompute built from the FEN of the request, is at
\* the position of the request with no move left applied, whatever loops
\* were left by a cut-off on the way (every inner call is undone by its
\* caller from the position the inner call returned).
C25_PositionRestored ==
    HasQuery =>
        /\ result.game = Chess([ok |-> TRUE, pos |-> query.pos])
        /\ result.game.hist = <<>>

\* a search of depth 2 from the first child of the root that left a loop by
\* a cut-off and returned with the position restored
C25_Witness ==
    /\ HasQuery
    /\ query.pos = <<1>>
    /\ query.depth = 2
    /\ result.nodes < QueryReference.nodes
    /\ result.game = [root |-> <<1>>, hist |-> <<>>]

\* the number of pieces of colour c and type t on board b
Count(b, c, t) == Cardinality({i \in 1..Len(b) : b[i] = Pc(c, t)})

\* the material of colour c on board b, by the weights of the claim
MaterialOf(b, c) ==
    100 * Count(b, c, "p") + 320 * Count(b, c, "n") + 330 * Count(b, c, "b")
        + 500 * Count(b, c, "r") + 900 * Count(b, c, "q") + 0 * Count(b, c, "k")

\* the evaluation of C26: material difference, plus or minus ten per legal
\* move of the side to move, negated for Black's perspective
EvalReference(game, side) ==
    LET material == MaterialOf(board(game), "w") - MaterialOf(board(game), "b")
        mobility == 10 * Len(moves(game))
        white == IF turn(game) = "w" THEN material + mobility ELSE material - mobility
    IN IF side = "w" THEN white ELSE 0 - white

\* the positions of a finished search on which the evaluator is checked:
\* the position searched and every position the search handed to it
Evaluated == {query.pos} \cup result.evals

\* C26: evaluateBoard(position, side) is the material difference by the
\* weights 100, 320, 330, 500, 900, 0, plus (White to move) or minus (Black
\* to move) ten times the number of legal moves, negated when side is
\* Black; the two perspectives are each other's negation; a search of depth
\* 0 on a position that is not over returns this value and leaves the
\* position as it was.
C26_EvaluateBoard ==
    HasQuery =>
        /\ \A p \in Evaluated : \A side \in Colors :
                LET game == Chess([ok |-> TRUE, pos |-> p])
                IN /\ evaluateBoard(game, side) = EvalReference(game, side)
                   /\ evaluateBoard(game, "w") = 0 - evaluateBoard(game, "b")
        /\ (query.depth = 0 /\ ~isGameOver(QueryGame)) =>
                /\ result.score = EvalReference(QueryGame, query.aiColor)
                /\ result.evals = {query.pos}
                /\ result.game = QueryGame

\* the evaluation, from Black's side, of a position with Black to move,
\* two legal moves, a white knight and a black bishop: 10 + 20
C26_Witness ==
    /\ HasQuery
    /\ query = [pos |-> <<1>>, depth |-> 0, aiColor |-> "b"]
    /\ world[<<1>>] = "bup"
    /\ result.score = 30

\* C27: no position that a search hands to evaluateBoard is one in which
\* the side to move has no legal move: checkmate and stalemate are
\* intercepted before the evaluator is reached, in every minimax call.
C27_NoEvaluationWithoutMoves ==
    HasQuery =>
        \A p \in result.evals : Len(moves(Chess([ok |-> TRUE, pos |-> p]))) > 0

\* a search of depth 2 whose first move leads to a stalemate, and which has
\* handed other positions to the evaluator
C27_Witness ==
    /\ HasQuery
    /\ query.pos = <<>>
    /\ query.depth = 2
    /\ world[<<1>>] = "stale"
    /\ result.evals # {}

-----------------------------------------------------------------------------
(* The facade claims (SpecFacade).                                         *)

CallIds == 1..Len(calls)

\* the response of the live worker that carries the id of call c, if posted
Answered(c) ==
    /\ aiWorker = calls[c].worker
    /\ \E i \in 1..Len(workers[aiWorker].outbox) :
            workers[aiWorker].outbox[i].id = calls[c].id

\* C1: whatever the number of outstanding calls and the order in which the
\* responses are dispatched, a promise is resolved only by the response that
\* carries the id of its own request, and with the move of that response
\* (the move the worker found for that request).
C1_ResponseCorrelation ==
    \A c \in CallIds :
        calls[c].state = "resolved" =>
            /\ calls[c].by = calls[c].id
            /\ calls[c].value = search(calls[c].fen, calls[c].depth, calls[c].aiColor).move

\* three calls are made to one worker; the third is resolved while the
\* responses to the first two, already posted, wait to be dispatched
C1_Witness ==
    /\ Len(calls) = 3
    /\ calls[1].state = "pending" /\ Answered(1)
    /\ calls[2].state = "pending" /\ Answered(2)
    /\ calls[3].state = "resolved"
    /\ calls[3].worker = calls[1].worker
    /\ calls[3].value # search(calls[1].fen, calls[1].depth, calls[1].aiColor).move

\* C2: a promise is settled at most once and its entry is removed from the
\* pending table at most once; it is pending exactly as long as its entry is
\* in the table, so once the entry is removed (by the response, a fault, a
\* termination or a failed send) nothing settles the promise again.
C2_SettledOnce ==
    \A c \in CallIds :
        /\ calls[c].settles <= 1
        /\ calls[c].removals <= 1
        /\ IF calls[c].state = "pending"
           THEN /\ calls[c].settles = 0
                /\ calls[c].removals = 0
                /\ calls[c].id \in DOMAIN pendingRequests
                /\ pendingRequests[calls[c].id] = c
           ELSE /\ calls[c].settles = 1
                /\ calls[c].removals = 1
                /\ \A id \in DOMAIN pendingRequests : pendingRequests[id] # c

\* one promise resolved by its response, one rejected by a failed send and
\* one rejected by a fault that came after the other two were settled
C2_Witness ==
    /\ Len(calls) = 3
    /\ \E a, b, c \in CallIds :
        /\ calls[a].state = "resolved"
        /\ calls[b].state = "rejected" /\ calls[b].cause = "send"
        /\ calls[c].state = "rejected" /\ calls[c].cause = "fault"
        /\ a < c /\ b < c

\* a fault event is handled: every promise pending before it is rejected
\* after it, the table is empty and the slot is null
FaultHandled ==
    /\ \A c \in CallIds : calls[c].state = "pending" => calls'[c].state = "rejected"
    /\ pendingRequests' = <<>>
    /\ aiWorker' = 0
    /\ workers'[aiWorker].terminated

\* C3: when the worker signals a fault while K >= 0 requests are pending,
\* all K promises are rejected, the pending table becomes empty and the
\* worker slot is cleared.
C3_FaultRejectsAll == [][(DeliverError \/ WorkerFault) => FaultHandled]_vars

\* a fault that found three requests pending
C3_Witness ==
    /\ Len(calls) = 3
    /\ \A c \in CallIds : calls[c].state = "rejected" /\ calls[c].cause = "fault"
    /\ aiWorker = 0
    /\ pendingRequests = <<>>

\* a computeBestMove call is made while the slot is null and a worker has
\* existed before
CallAfterTermination ==
    /\ Len(calls') = Len(calls) + 1
    /\ aiWorker = 0
    /\ Len(workers) > 0

\* the call created a new instance, which has received nothing but this
\* request and posted nothing; every earlier instance is terminated; the
\* pending table holds no entry but the one of this call
FreshWorker ==
    LET c == Len(calls')
        w == aiWorker'
    IN /\ Len(workers') = Len(workers) + 1
       /\ w = Len(workers')
       /\ calls'[c].worker = w
       /\ ~workers'[w].terminated
       /\ workers'[w].outbox = <<>>
       /\ workers'[w].errors = <<>>
       /\ \A i \in 1..Len(workers'[w].inbox) : workers'[w].inbox[i].call = c
       /\ \A v \in 1..Len(workers) : workers'[v].terminated
       /\ \A id \in DOMAIN pendingRequests' : pendingRequests'[id] = c

\* C4: after a fault or a termination the next computeBestMove call creates
\* a fresh worker instance, no pending entry from before survives into it,
\* and a promise is only ever resolved by the instance its request was
\* sent to while that instance is the live one.
C4_FreshWorkerAfterTermination ==
    [][/\ CallAfterTermination => FreshWorker
       /\ \A c \in 1..Len(calls) :
            (calls[c].state = "pending" /\ calls'[c].state = "resolved")
                => (aiWorker = calls[c].worker /\ ~workers[aiWorker].terminated)]_vars

\* a request made after a fault, and one made after a termination, each
\* resolved by the response of the instance created for it
C4_Witness ==
    /\ Len(workers) = 2
    /\ workers[1].terminated
    /\ \E c \in CallIds :
        /\ calls[c].worker = 2
        /\ calls[c].state = "resolved"
        /\ calls[c].value # NullMove
    /\ \E c \in CallIds :
        /\ calls[c].worker = 1
        /\ calls[c].state = "rejected"

\* C12: the request ids allocated by successive computeBestMove calls are
\* strictly increasing over the whole lifetime of the facade, whatever
\* responses, faults and terminations come between the calls.
C12_IdsStrictlyIncreasing ==
    \A c, d \in CallIds : c < d => calls[c].id < calls[d].id

\* a step in which computeBestMove is called
CallMade == Len(calls') = Len(calls) + 1

\* C13: the id that computeBestMove allocates is not a key of the pending
\* table at the time of the call, and the call leaves every entry that was
\* in the table in place, bound to the promise it was bound to.
C13_IdNotOutstanding ==
    [][CallMade =>
        /\ calls'[Len(calls')].id \notin DOMAIN pendingRequests
        /\ \A id \in DOMAIN pendingRequests :
                /\ id \in DOMAIN pendingRequests'
                /\ pendingRequests'[id] = pendingRequests[id]]_vars

\* after a termination reset the counter, a call was made while the request
\* of the call before it was outstanding
C13_Witness ==
    /\ Len(calls) = 3
    /\ calls[1].state = "rejected" /\ calls[1].cause = "terminate"
    /\ calls[2].state = "pending" /\ calls[2].id = 1
    /\ calls[3].state = "pending" /\ calls[3].id = 2
    /\ DOMAIN pendingRequests = {1, 2}

WorkerIds == 1..Len(workers)

\* C14: over a run of the facade and its worker instances, terminations and
\* re-creations of the worker included, no two reply messages posted carry
\* the same id.
C14_OneResponsePerId ==
    \A v, w \in WorkerIds :
        \A i \in 1..Len(workers[v].posted), j \in 1..Len(workers[w].posted) :
            (v # w \/ i # j) => workers[v].posted[i].id # workers[w].posted[j].id

\* the message that the live worker handles next
HandledMessage == Head(workers[aiWorker].inbox)

\* the step of the live worker made one minimax invocation and posted one
\* reply, with the id of the message handled
OneSearchOneReply ==
    LET w == workers[aiWorker]
        w2 == workers'[aiWorker]
    IN /\ w2.searches = w.searches + 1
       /\ Len(w2.posted) = Len(w.posted) + 1
       /\ SubSeq(w2.posted, 1, Len(w.posted)) = w.posted
       /\ w2.posted[Len(w2.posted)].id = HandledMessage.id
       /\ w2.outbox = Append(w.outbox, w2.posted[Len(w2.posted)])

\* the step of the live worker searched nothing and posted nothing, and
\* raised an error for the message handled
NoSearchNoReply ==
    LET w == workers[aiWorker]
        w2 == workers'[aiWorker]
    IN /\ w2.searches = w.searches
       /\ w2.posted = w.posted
       /\ w2.outbox = w.outbox
       /\ w2.errors = Append(w.errors, HandledMessage.call)

InSendOrder(seq) == \A i, j \in 1..Len(seq) : i < j => seq[i].call < seq[j].call

\* C16: a worker instance handles one message per step, the oldest it has
\* received, and posts at most one reply in the step; its replies are posted
\* in the order in which their requests were sent, and every request it
\* has answered was sent before every request that still waits.
C16_ServicedInArrivalOrder ==
    [][WorkerHandle =>
        LET w == workers[aiWorker]
            w2 == workers'[aiWorker]
        IN /\ w2.inbox = Tail(w.inbox)
           /\ Len(w2.posted) <= Len(w.posted) + 1
           /\ w2.searches <= w.searches + 1
           /\ InSendOrder(w2.posted)
           /\ InSendOrder(w2.inbox)
           /\ \A i \in 1..Len(w2.posted), j \in 1..Len(w2.inbox) :
                    w2.posted[i].call < w2.inbox[j].call]_vars

\* three requests were in flight at one worker, which has answered all
\* three; none of the replies has been dispatched yet
C16_Witness ==
    \E w \in WorkerIds :
        /\ Len(workers[w].posted) = 3
        /\ Len(workers[w].outbox) = 3
        /\ \A c \in CallIds : calls[c].state = "pending" /\ calls[c].worker = w

\* C17: a worker is created only by a computeBestMove call made while the
\* slot is empty, and then exactly one; a call made while a worker exists
\* sends its request to that worker and creates none; every worker other
\* than the one in the slot has been terminated.
C17_SingleWorker ==
    [][/\ Len(workers') # Len(workers) =>
            /\ CallMade
            /\ aiWorker = 0
            /\ Len(workers') = Len(workers) + 1
            /\ calls'[Len(calls')].worker = Len(workers')
       /\ (CallMade /\ aiWorker # 0) =>
            /\ Len(workers') = Len(workers)
            /\ calls'[Len(calls')].worker = aiWorker
            /\ aiWorker' = aiWorker
       /\ \A v \in 1..Len(workers') : v # aiWorker' => workers'[v].terminated]_vars

\* the second worker, created after the first was terminated, has been sent
\* two requests
C17_Witness ==
    /\ Len(workers) = 2
    /\ workers[1].terminated
    /\ aiWorker = 2
    /\ ~workers[2].terminated
    /\ Len(calls) = 3
    /\ calls[1].worker = 1
    /\ calls[2].worker = 2 /\ calls[3].worker = 2

\* C18: when postMessage throws, the promise of the call is rejected before
\* computeBestMove returns and its id is not in the pending table
\* afterwards; the table is as it was before the call, and so are the other
\* promises.
C18_SendFaultRejects ==
    [][\A options \in ApiOptions :
        (~options.cloneable /\ ApiCompute(options)) =>
            LET c == Len(calls')
            IN /\ c = Len(calls) + 1
               /\ calls'[c].state = "rejected"
               /\ calls'[c].settles = 1
               /\ calls'[c].id \notin DOMAIN pendingRequests'
               /\ pendingRequests' = pendingRequests
               /\ \A d \in CallIds : calls'[d] = calls[d]]_vars

\* a send failed while two requests were pending, which still are
C18_Witness ==
    /\ Len(calls) = 3
    /\ calls[1].state = "pending" /\ calls[2].state = "pending"
    /\ calls[3].state = "rejected" /\ calls[3].cause = "send"
    /\ DOMAIN pendingRequests = {calls[1].id, calls[2].id}
    /\ calls[3].id \notin DOMAIN pendingRequests

\* C19: the error raised by a compute request with a malformed position
\* rejects the promise of that request only: no other promise changes
\* state, and the worker instance stays in the slot, not terminated.
C19_InvalidInputIsolated ==
    [][DeliverError =>
        LET bad == Head(workers[aiWorker].errors)
        IN /\ calls'[bad].state = "rejected"
           /\ \A c \in CallIds \ {bad} : calls'[c].state = calls[c].state
           /\ aiWorker' = aiWorker
           /\ ~workers'[aiWorker].terminated]_vars

\* C20: terminateAiWorker called while a worker exists rejects every pending
\* promise, leaves the settled ones as they are, empties the pending table,
\* terminates the worker and clears the slot; called while no worker exists
\* it changes nothing.
C20_TerminateRejectsAll ==
    [][ApiTerminate =>
        IF aiWorker # 0
        THEN /\ \A c \in CallIds :
                    IF calls[c].state = "pending"
                    THEN calls'[c].state = "rejected" /\ calls'[c].settles = 1
                    ELSE calls'[c] = calls[c]
             /\ pendingRequests' = <<>>
             /\ aiWorker' = 0
             /\ workers'[aiWorker].terminated
        ELSE UNCHANGED vars]_vars

\* a termination found two requests pending and one already resolved
C20_Witness ==
    /\ Len(calls) = 3
    /\ \E a, b, c \in CallIds :
        /\ calls[a].state = "resolved"
        /\ calls[b].state = "rejected" /\ calls[b].cause = "terminate"
        /\ calls[c].state = "rejected" /\ calls[c].cause = "terminate"
        /\ b # c
    /\ aiWorker = 0
    /\ pendingRequests = <<>>
    /\ workers[1].endedBy = "terminate"

\* C21: a promise is settled by a 'message' event only when the event comes
\* from an instance that has not been terminated, the instance its request
\* was sent to, and carries the reply computed for that very request; no
\* reply of a terminated instance is ever dispatched, so none settles the
\* promise of a request sent to a later instance under the same id.
C21_TerminationDiscardsResults ==
    [][\A v \in WorkerIds : \A i \in 1..MaxCalls :
        DeliverFrom(v, i) =>
            /\ ~workers[v].terminated
            /\ \A c \in CallIds :
                    (calls[c].state = "pending" /\ calls'[c].state # "pending") =>
                        /\ workers[v].outbox[i].call = c
                        /\ calls[c].worker = v]_vars

\* the first instance was terminated after it had posted the reply to a
\* request with id 1, which was never dispatched; the request sent to the
\* second instance under id 1 is resolved with another move
C21_Witness ==
    /\ Len(workers) = 2
    /\ workers[1].terminated
    /\ Len(workers[1].posted) = 1
    /\ calls[1].state = "rejected"
    /\ \E c \in CallIds :
        /\ calls[c].worker = 2
        /\ calls[c].id = calls[1].id
        /\ calls[c].state = "resolved"
        /\ calls[c].value # workers[1].posted[1].move

\* no request is sent again: a step adds a message to the inbox of an
\* instance only when it is a call of computeBestMove, and then one message,
\* the request of that call, to the instance in the slot
NoRetry ==
    /\ \A v \in WorkerIds :
            Len(workers'[v].inbox) > Len(workers[v].inbox) =>
                /\ CallMade
                /\ v = aiWorker'
                /\ workers'[v].inbox =
                        Append(workers[v].inbox, workers'[v].inbox[Len(workers'[v].inbox)])
                /\ workers'[v].inbox[Len(workers'[v].inbox)].call = Len(calls')
    /\ \A v \in 1..Len(workers') \ WorkerIds :
            /\ CallMade
            /\ Len(workers'[v].inbox) <= 1
            /\ \A i \in 1..Len(workers'[v].inbox) : workers'[v].inbox[i].call = Len(calls')

\* C29: an exception raised while the worker handles a compute message is
\* not caught: the worker posts no reply for the request; the 'error' event
\* rejects every pending promise, empties the table and ends the instance;
\* and no step of the facade sends a request a second time.
C29_FailurePropagates ==
    [][/\ (WorkerHandle /\ ~HandledMessage.fen.ok) => NoSearchNoReply
       /\ DeliverError =>
            /\ \A c \in CallIds :
                    IF calls[c].state = "pending"
                    THEN calls'[c].state = "rejected" /\ calls'[c].cause = "fault"
                    ELSE calls'[c] = calls[c]
            /\ Len(calls') = Len(calls)
            /\ pendingRequests' = <<>>
            /\ Len(workers') = Len(workers)
       /\ NoRetry]_vars

\* the worker has answered the first of three requests and then raised an
\* exception on the second, whose position string is malformed: no reply to
\* it is posted, the error waits to be dispatched and the three promises
\* are pending
C29_Witness ==
    /\ aiWorker = 1
    /\ Len(calls) = 3
    /\ \A c \in CallIds : calls[c].state = "pending"
    /\ ~calls[2].fen.ok
    /\ workers[1].errors = <<2>>
    /\ Len(workers[1].posted) = 1 /\ workers[1].posted[1].call = 1
    /\ Len(workers[1].inbox) = 1 /\ workers[1].inbox[1].call = 3

-----------------------------------------------------------------------------
(* The store claims (Spec).                                                *)

\* the promise that the oldest posted response of the live worker resolves
\* when it is dispatched
Delivered == pendingRequests[workers[aiWorker].outbox[1].id]

\* the response dispatched belongs to a task that is not the current one
StaleDelivery ==
    /\ DeliverMessage(1)
    /\ workers[aiWorker].outbox[1].id \in DOMAIN pendingRequests
    /\ calls[Delivered].task # 0
    /\ calls[Delivered].task # store.aiTaskId

\* C5: a response that arrives after aiTaskId has advanced past the task of
\* its request is ignored: the game, lastMove, the history and isAiThinking
\* (and every other ref of the store) are left as they are.
C5_StaleResponseIgnored ==
    [][StaleDelivery =>
        /\ store'.game = store.game
        /\ store'.lastMove = store.lastMove
        /\ store'.history = store.history
        /\ store'.isAiThinking = store.isAiThinking
        /\ store' = store]_vars

\* a response with a move was ignored as stale while a newer request of the
\* store is being computed
C5_Witness ==
    \E c \in CallIds :
        /\ calls[c].stale
        /\ calls[c].state = "resolved"
        /\ calls[c].value # NullMove
        /\ store.isAiThinking
        /\ store.aiTaskId > calls[c].task

\* the response dispatched makes requestAiMove play a move
MoveApplied ==
    /\ DeliverMessage(1)
    /\ store'.game # store.game

\* C6: whenever requestAiMove applies a returned move, the position of the
\* game is the position that was sent in that request.
C6_AppliedToRequestedPosition ==
    [][MoveApplied => Fen(store.game) = calls[Delivered].fen]_vars

\* the move of a response was played on the position of its request, after
\* an earlier response had been ignored as stale
C6_Witness ==
    \E c, d \in CallIds :
        /\ d < c
        /\ calls[d].stale
        /\ calls[c].task # 0
        /\ calls[c].state = "resolved"
        /\ ~calls[c].stale
        /\ calls[c].value # NullMove
        /\ store.lastMove = calls[c].value
        /\ Len(store.game.hist) = Len(calls[c].fen.pos) + 1
        /\ SubSeq(store.game.hist, 1, Len(calls[c].fen.pos)) = calls[c].fen.pos

\* the machine N that an operation leaves has every request of the
\* machine on its way: the instance stays in the slot, not terminated; the
\* entries of the table stay, bound to the same promises; no promise is
\* settled; and every instance keeps the messages it has received, the
\* replies and errors that wait to be dispatched and the count of its
\* searches
KeptInFlight(N) ==
    /\ aiWorker # 0 => N.aiWorker = aiWorker /\ ~N.workers[aiWorker].terminated
    /\ \A id \in DOMAIN pendingRequests :
            id \in DOMAIN N.pendingRequests /\ N.pendingRequests[id] = pendingRequests[id]
    /\ \A c \in CallIds : N.calls[c] = calls[c]
    /\ \A v \in WorkerIds :
            /\ N.workers[v].outbox = workers[v].outbox
            /\ N.workers[v].errors = workers[v].errors
            /\ N.workers[v].posted = workers[v].posted
            /\ N.workers[v].searches = workers[v].searches
            /\ Len(N.workers[v].inbox) >= Len(workers[v].inbox)
            /\ SubSeq(N.workers[v].inbox, 1, Len(workers[v].inbox)) = workers[v].inbox

\* call c is a request of the store that the store has cancelled and that
\* is not settled
CancelledInFlight(c) ==
    /\ calls[c].state = "pending"
    /\ calls[c].task # 0
    /\ calls[c].task < store.aiTaskId

\* the cancelled request c is on its way: its entry is in the table, the
\* instance it was sent to is in the slot, and the instance holds either
\* the request, not handled yet, or the reply, not dispatched yet
OnItsWay(c) ==
    /\ calls[c].id \in DOMAIN pendingRequests
    /\ pendingRequests[calls[c].id] = c
    /\ aiWorker = calls[c].worker
    /\ LET w == workers[aiWorker]
       IN \/ \E i \in 1..Len(w.inbox) : w.inbox[i].call = c /\ w.inbox[i].id = calls[c].id
          \/ \E i \in 1..Len(w.outbox) : w.outbox[i].call = c /\ w.outbox[i].id = calls[c].id

\* the dispatch of the reply to the cancelled request c resolves its
\* promise, and the store ignores the move
ReplySettles(c) ==
    LET w == workers[aiWorker]
    IN (w.outbox # <<>> /\ w.outbox[1].call = c) =>
            LET N == drain(handleWorkerMessage(
                               [Machine EXCEPT !.workers[aiWorker].outbox = Tail(@)],
                               w.outbox[1]))
            IN /\ N.calls[c].state = "resolved"
               /\ N.calls[c].value = w.outbox[1].move
               /\ N.calls[c].stale
               /\ N.store = store

\* a fault rejects the promise of the cancelled request c
FaultSettles(c) ==
    drain(handleWorkerError(Machine)).calls[c].state = "rejected"

\* C30: cancellation is advisory.  An operation that cancels (beginSetup,
\* reset, applySetup) advances aiTaskId and leaves every request on its
\* way; beginSetup, which does nothing but cancel and leave the game,
\* changes aiTaskId, isAiThinking and isSetupComplete only.  The promise of
\* a cancelled request is still settled: as long as it is pending the
\* request or its reply waits at the instance in the slot, the dispatch of
\* the reply resolves it and a fault rejects it.
C30_CancellationAdvisory ==
    /\ LET N == drain(beginSetup(Machine))
       IN /\ KeptInFlight(N)
          /\ N = [Machine EXCEPT !.store.aiTaskId = @ + 1,
                                 !.store.isAiThinking = FALSE,
                                 !.store.isSetupComplete = FALSE]
    /\ \A option \in {"default", "false"} :
            LET N == drain(reset(Machine, option))
            IN N.store.aiTaskId > store.aiTaskId /\ KeptInFlight(N)
    /\ \A options \in SetupOptions :
            LET N == drain(applySetup(Machine, options))
            IN N.store.aiTaskId > store.aiTaskId /\ KeptInFlight(N)
    /\ \A c \in CallIds :
            CancelledInFlight(c) => (OnItsWay(c) /\ ReplySettles(c) /\ FaultSettles(c))

\* the request was cancelled by beginSetup before the worker had searched;
\* the same instance, still in the slot, has searched and replied, and the
\* promise is resolved with a move that the store has ignored
C30_Witness ==
    /\ ~store.isSetupComplete
    /\ ~store.isAiThinking
    /\ Len(calls) = 1
    /\ calls[1].state = "resolved" /\ calls[1].stale
    /\ calls[1].value # NullMove
    /\ store.aiTaskId = calls[1].task + 1
    /\ aiWorker = calls[1].worker
    /\ workers[aiWorker].searches = 1
    /\ pendingRequests = <<>>

\* a request is outstanding
Outstanding == \E c \in CallIds : calls[c].state = "pending"

\* the machine N that a caller-side operation leaves when it has returned
\* and the continuations it scheduled have run: no worker instance has
\* searched or posted anything on the way
NoWorkerStep(N) ==
    \A v \in WorkerIds :
        /\ N.workers[v].searches = workers[v].searches
        /\ N.workers[v].posted = workers[v].posted
        /\ Len(N.workers[v].inbox) >= Len(workers[v].inbox) \/ N.workers[v].terminated

\* computeBestMove has handed out a promise: pending, or rejected when the
\* send failed
Promised(N, options) ==
    /\ Len(N.calls) = Len(calls) + 1
    /\ N.calls[Len(N.calls)].state = (IF options.cloneable THEN "pending" ELSE "rejected")
    /\ N.calls[Len(N.calls)].fen = options.fen

\* the store has cancelled the requests it was waiting for
Cancelled(N) ==
    \A c \in CallIds : calls[c].task # 0 => N.store.aiTaskId > calls[c].task

\* C22: while a request is outstanding, every caller-side operation runs
\* to its end and has its effect with no step of a worker: computeBestMove
\* hands out a promise, terminateAiWorker clears the slot and the table,
\* reset starts a new game, beginSetup leaves the game and applySetup
\* enters one with the options given.
C22_NeverBlocked ==
    Outstanding =>
        /\ \A options \in ApiOptions :
                LET N == drain(computeBestMove(Machine, options, 0))
                IN Promised(N, options) /\ NoWorkerStep(N)
        /\ LET N == drain(terminateAiWorker(Machine))
           IN N.aiWorker = 0 /\ N.pendingRequests = <<>> /\ NoWorkerStep(N)
        /\ \A option \in {"default", "false"} :
                LET N == drain(reset(Machine, option))
                IN N.store.game = NewGame /\ Cancelled(N) /\ NoWorkerStep(N)
        /\ LET N == drain(beginSetup(Machine))
           IN ~N.store.isSetupComplete /\ Cancelled(N) /\ NoWorkerStep(N)
        /\ \A options \in SetupOptions :
                LET N == drain(applySetup(Machine, options))
                IN /\ N.store.isSetupComplete
                   /\ N.store.mode = options.mode
                   /\ N.store.game = NewGame
                   /\ Cancelled(N)
                   /\ NoWorkerStep(N)

\* a request of the store is outstanding and the worker has not handled
\* it, while a second operation of the store has been carried out: two
\* requests wait at the worker
C22_Witness ==
    /\ Len(calls) = 2
    /\ calls[1].state = "pending" /\ calls[2].state = "pending"
    /\ calls[1].task # 0 /\ calls[2].task > calls[1].task
    /\ aiWorker # 0
    /\ Len(workers[aiWorker].inbox) = 2
    /\ workers[aiWorker].searches = 0

\* C37: the checkmate sentinel dominates the static evaluation: on every
\* position that a search hands to evaluateBoard, and on the position
\* searched, the absolute value of evaluateBoard is less than 10000, for
\* either side.
C37_SentinelDominates ==
    HasQuery =>
        \A p \in Evaluated : \A side \in Colors :
            LET value == evaluateBoard(Chess([ok |-> TRUE, pos |-> p]), side)
            IN value < CHECKMATE_SCORE /\ value > 0 - CHECKMATE_SCORE

\* C31: a request of the store is issued only when setup is complete, no
\* promotion is pending, the game is not over and the side to move is the
\* colour of the AI; it carries the FEN of the game, the colour of the AI
\* and the depth 1, 2 or 3 of the difficulty easy, medium or hard.
C31_RequestWellFormed ==
    [][CallMade =>
        LET request == calls'[Len(calls')]
        IN /\ store'.isSetupComplete
           /\ store'.pendingPromotion = NoPromotion
           /\ ~isGameOver(store'.game)
           /\ turn(store'.game) = store'.aiColor
           /\ request.fen = Fen(store'.game)
           /\ request.aiColor = store'.aiColor
           /\ request.depth = (CASE store'.aiDifficulty = "easy" -> 1
                                  [] store'.aiDifficulty = "medium" -> 2
                                  [] store'.aiDifficulty = "hard" -> 3)
           /\ request.depth >= 1
           /\ request.task = store'.aiTaskId]_vars

\* the request that follows a move of the player, at difficulty hard, for
\* an AI that plays Black
C31_Witness ==
    /\ store.mode = "pvai" /\ store.aiDifficulty = "hard"
    /\ \E c \in CallIds :
            /\ calls[c].state = "pending"
            /\ calls[c].task = store.aiTaskId
            /\ calls[c].aiColor = "b"
            /\ calls[c].depth = 3
            /\ Len(calls[c].fen.pos) = 1
            /\ calls[c].fen = Fen(store.game)

\* C32: when the worker slot is empty the pending table is empty; every
\* pending promise has its entry in the table and was handed to the
\* instance in the slot.
C32_EmptySlotEmptyTable ==
    /\ aiWorker = 0 => DOMAIN pendingRequests = {}
    /\ \A c \in CallIds :
            calls[c].state = "pending" =>
                /\ aiWorker # 0
                /\ calls[c].worker = aiWorker
                /\ calls[c].id \in DOMAIN pendingRequests
                /\ pendingRequests[calls[c].id] = c

\* the slot is empty after a fault ended the first instance and a
\* termination the second, each with a request pending
C32_Witness ==
    /\ aiWorker = 0
    /\ pendingRequests = <<>>
    /\ Len(workers) = 2
    /\ workers[1].endedBy = "fault" /\ workers[2].endedBy = "terminate"
    /\ \E c, d \in CallIds :
            /\ calls[c].worker = 1 /\ calls[c].state = "rejected" /\ calls[c].cause = "fault"
            /\ calls[d].worker = 2 /\ calls[d].state = "rejected" /\ calls[d].cause = "terminate"

\* the requests of the store that are outstanding and belong to the
\* current task
CurrentRequests ==
    {c \in CallIds : calls[c].state = "pending" /\ calls[c].task = store.aiTaskId}

\* C33: isAiThinking is true exactly when a request of the store is
\* outstanding whose task is the current aiTaskId, and at most one
\* outstanding request is current.
C33_ThinkingIffCurrentRequest ==
    /\ store.isAiThinking <=> CurrentRequests # {}
    /\ Cardinality(CurrentRequests) <= 1

\* the player has moved and the AI is thinking about its reply, after the
\* response to an earlier request was settled and ignored as stale
C33_Witness ==
    /\ store.isAiThinking
    /\ Len(store.game.hist) = 1
    /\ \E c, d \in CallIds :
            /\ c < d
            /\ calls[c].state = "resolved" /\ calls[c].stale
            /\ CurrentRequests = {d}

\* selectSquare returns at one of its two guards
SelectionBlocked ==
    \/ ~store.isSetupComplete
    \/ store.pendingPromotion # NoPromotion
    \/ (store.mode = "pvai" /\ store.isAiThinking)

\* the machine N has the game, the selection and the pending promotion of
\* the store, and no request more
SameGameAndSelection(N) ==
    /\ N.store.game = store.game
    /\ N.store.selectedSquare = store.selectedSquare
    /\ N.store.legalMoves = store.legalMoves
    /\ N.store.pendingPromotion = store.pendingPromotion
    /\ N.calls = calls

\* C34: selectSquare changes nothing (the position, the selection and the
\* pending promotion included) when setup is not complete, when a promotion
\* is pending, or when the mode is pvai and isAiThinking is true; while a
\* current request of the AI is outstanding neither selectSquare nor
\* promotePawn makes a move.
C34_SelectSquareGuarded ==
    /\ SelectionBlocked =>
            \A square \in StoreSquares :
                LET N == drain(selectSquare(Machine, square))
                IN SameGameAndSelection(N) /\ N.store = store
    /\ (store.mode = "pvai" /\ CurrentRequests # {}) =>
            /\ \A square \in StoreSquares :
                    drain(selectSquare(Machine, square)).store.game = store.game
            /\ \A promotion \in {"q", "r", "b", "n"} :
                    drain(promotePawn(Machine, promotion)).store.game = store.game

\* the AI is thinking while a piece of the side to move is selected, with
\* a square it can move to: a click on that square is ignored
C34_Witness ==
    /\ store.mode = "pvai"
    /\ store.isSetupComplete
    /\ store.pendingPromotion = NoPromotion
    /\ store.isAiThinking
    /\ CurrentRequests # {}
    /\ store.selectedSquare # 0
    /\ \E square \in StoreSquares :
            /\ \E i \in 1..Len(store.legalMoves) : store.legalMoves[i].to = square
            /\ MoveIndex(store.game, store.selectedSquare, square, "q") # 0

\* the step makes one move on the game of the store
MoveMade ==
    /\ store'.game.root = store.game.root
    /\ Len(store'.game.hist) = Len(store.game.hist) + 1
    /\ SubSeq(store'.game.hist, 1, Len(store.game.hist)) = store.game.hist

\* C35: in pvai mode every move of the AI's colour that is applied to the
\* game is the move of a search response, applied by requestAiMove in the
\* step that resolves the request: no operation of the player makes a move
\* for the AI's colour.
C35_AiMovesOnlyFromResponses ==
    [][(store.mode = "pvai" /\ MoveMade /\ turn(store.game) = store.aiColor) =>
        \E c \in CallIds :
            /\ calls[c].state = "pending"
            /\ calls'[c].state = "resolved"
            /\ calls'[c].task # 0
            /\ ~calls'[c].stale
            /\ calls'[c].value = store'.lastMove]_vars

\* C36: whenever isAiThinking is true it becomes false again later, given
\* that the worker handles every request it holds and every reply it
\* posts is dispatched, unless a fault or a termination comes first.
C36_ThinkingEnds == store.isAiThinking ~> ~store.isAiThinking

\* the flag is clear after a response was applied and after a fault
\* rejected the request of the current task
C36_Witness ==
    /\ ~store.isAiThinking
    /\ \E c, d \in CallIds :
            /\ calls[c].task # 0
            /\ calls[c].state = "resolved" /\ ~calls[c].stale
            /\ calls[c].value # NullMove
            /\ calls[d].task = store.aiTaskId
            /\ calls[d].state = "rejected" /\ calls[d].cause = "fault"

-----------------------------------------------------------------------------
(* The lobby claim (SpecLobby).                                            *)

\* runs started and not ended
RunsInProgress == lobby.runs - lobby.ended

\* at most one run is in progress, the in-flight flag is set exactly while
\* one is, and a follow-up is pending exactly when a trigger has arrived
\* that no run has been started after
SingleFlight ==
    /\ RunsInProgress \in {0, 1}
    /\ lobby.autoJoinEvaluationInFlight <=> RunsInProgress = 1
    /\ lobby.autoJoinEvaluationInFlight <=> lobby.pc # "none"
    /\ lobby.autoJoinEvaluationPending => lobby.autoJoinEvaluationInFlight
    /\ lobby.owed <=> lobby.autoJoinEvaluationPending

\* a trigger during a run starts and ends no run and leaves a follow-up
\* pending; a trigger while no run is in progress starts one run; the end
\* of a run starts one follow-up run when a follow-up is pending and none
\* otherwise
Coalesced ==
    LET starts == lobby'.runs - lobby.runs
        ends == lobby'.ended - lobby.ended
        triggered == lobby'.triggers > lobby.triggers
    IN /\ (triggered /\ lobby.autoJoinEvaluationInFlight) =>
            (starts = 0 /\ ends = 0 /\ lobby'.autoJoinEvaluationPending)
       /\ (triggered /\ ~lobby.autoJoinEvaluationInFlight) => starts = 1
       /\ (~triggered /\ ends >= 1) =>
            starts = (IF lobby.autoJoinEvaluationPending THEN 1 ELSE 0)
       /\ (~triggered /\ ends = 0) => starts = 0

\* C38: the auto-join evaluation is single-flight: at most one run is in
\* progress; the triggers that arrive during a run are coalesced into one
\* follow-up run, started when the run ends; the in-flight flag is clear
\* whenever no run is in progress, also after a run that threw; every run
\* that starts ends, and after every trigger a run is started.
C38_AutoJoinSingleFlight ==
    /\ []SingleFlight
    /\ [][Coalesced]_vars
    /\ \A n \in 1..MaxTriggers :
            (lobby.runs = n /\ lobby.ended < n) ~> (lobby.ended >= n)
    /\ lobby.owed ~> ~lobby.owed

\* three triggers made two runs, the second and third arriving during the
\* first run; the second run ended by the rejection of router.push, and
\* the flags are clear
C38_Witness ==
    /\ lobby.triggers = 3
    /\ lobby.runs = 2
    /\ lobby.ended = 2
    /\ lobby.lastEnd = "throw"
    /\ ~lobby.autoJoinEvaluationInFlight
    /\ ~lobby.autoJoinEvaluationPending

-----------------------------------------------------------------------------
(* The message handler under any message (SpecMessages).                   *)

\* C28: a 'message' event whose id is not a key of the pending table
\* settles no promise and leaves the promises, the pending table, the
\* worker slot, the id counter and the store as they are.
C28_UnknownIdDropped ==
    [][\A v \in WorkerIds : \A i \in 1..(MaxCalls + 1) :
        (DeliverFrom(v, i) /\ workers[v].outbox[i].id \notin DOMAIN pendingRequests) =>
            UNCHANGED <<calls, pendingRequests, aiWorker, nextRequestId, store>>]_vars

\* a message with an id that was never issued has been posted by the live
\* instance and dispatched, while two requests are pending, which still are
C28_Witness ==
    /\ aiWorker # 0
    /\ \E i \in 1..Len(workers[aiWorker].posted) :
            /\ workers[aiWorker].posted[i].call = 0
            /\ workers[aiWorker].posted[i].id >= nextRequestId
    /\ workers[aiWorker].outbox = <<>>
    /\ Len(calls) = 2
    /\ calls[1].state = "pending" /\ calls[2].state = "pending"
    /\ DOMAIN pendingRequests = {1, 2}

=============================================================================
